---- MODULE Spec2Model ----
(***************************************************************************)
(* A model of ja2mqtt (src/ja2mqtt/components.py): the panel simulator     *)
(* (Section, Simulator), the serial <-> MQTT bridge (SerialMQTTBridge),    *)
(* the Serial and MQTT workers, Pattern and Topic.check_rule_data; and of  *)
(* src/ja2mqtt/config.py: init_env, read_config, ConfigPart.value.         *)
(*                                                                         *)
(* A serial line is modelled as the sequence of its space-separated words; *)
(* the trailing newline that Serial.writeline appends is the word NL.      *)
(***************************************************************************)
EXTENDS Integers, Sequences, FiniteSets, TLC

VARIABLES
    \* ---- Simulator ----
    sections,     \* Simulator.sections: code -> Section.state
    buffer,       \* Simulator.buffer (Queue): items [line, src, delay, cur]
    wpc,          \* position of the thread inside Simulator.write
    wphase,       \* 1: SET/UNSET block (l.94-107), 2: STATE block (l.109-114)
    wcmd,         \* data_str of the write in progress / last handled
    wdata,        \* the argument of the _add_to_buffer call in progress
    widx,         \* position of the loop over self.sections.values() (l.113)
    now,          \* time.time()
    last_write,   \* rule.__last_write of every rule
    kpc,          \* position of Simulator.worker: [i |-> rule, st |-> step]
    \* ---- history of the write in progress (not program state) ----
    slept,        \* response delays taken by the write: "none", "fresh", "used"
    replies,      \* the lines the write has put so far
    pre,          \* sections when the write began
    got,          \* the lines of this write that readline has returned
    call,         \* the Section.set / Section.unset call made by the write
    \* ---- SerialMQTTBridge and the two threads that call into it ----
    scope,        \* SerialMQTTBridge._scope
    connected,    \* MQTT.connected
    th,           \* per thread: position inside on_serial_data / on_mqtt_message
    \* ---- history of the handlers (not program state) ----
    fired,        \* per thread: the rules fired for the event in hand, in order
    overlap,      \* per thread: the other handler ran during the one in hand
    raced,        \* how a write was evaluated without the handler's own data
    \* ---- MQTT and the thread that runs MQTT.worker ----
    client,       \* MQTT.client: 0 is None, n the n-th mqtt.Client created
    link,         \* the connection of self.client: "none", "pending", "up"
    subs,         \* the topic names subscribed on self.client
    exit_event,   \* exit_event.is_set()
    mpc,          \* position of the thread inside MQTT.worker
    mctx,         \* the call of wait_for_connection in progress: 267, 273, 276
    mreconnect,   \* its reconnect argument
    mexc,         \* an exception is on its way out of the worker's try block
    waited,       \* history: exit_event.wait(reconnect_after) calls so far
    \* ---- Topic.check_rule_data and one Pattern object ----
    default_path, \* the list that is the default of the parameter path (l.304)
    checked,      \* the last call of check_rule_data and how it ended
    pat,          \* a Pattern: [p |-> pattern, match |-> self.match]
    cmp,          \* the last call of Pattern.__eq__ and what it returned
    \* ---- config.py ----
    ENV,          \* the global ENV: name -> value
    loaded,       \* the last call of read_config and how it ended
    valued,       \* the last call of ConfigPart.value and how it ended
    \* ---- history of Simulator.worker (not program state) ----
    fresh,        \* the evaluation in progress has set rule.__last_write
    fire_log,     \* per rule: the clock at every comparison that fired it
    \* ---- Serial and the thread that runs Serial.worker ----
    spc,          \* position of the thread inside Serial.worker
    ser,          \* the transport self.ser: [st, opens, closes, blind]
    xbytes,       \* the local x of Serial.worker: the bytes read last
    sexc,         \* an exception is on its way out of Serial.worker
    heard,        \* history: the calls of on_data, [raw |-> x, text |-> argument]
    \* ---- history of the cancellation (not program state) ----
    late,         \* per worker: exit_event.wait calls that ended with the event set
    \* ---- history of wait_for_connection (not program state) ----
    torn          \* the last client it disconnected: the call, the flag, the link

simVars == <<sections, buffer, wpc, wphase, wcmd, wdata, widx, now, last_write,
             kpc, slept, replies, pre, got, call>>

bridgeVars == <<scope, connected, th, fired, overlap, raced>>

mqttVars == <<client, link, subs, exit_event, mpc, mctx, mreconnect, mexc, waited>>

\* what the simulator leaves alone, and what the bridge handlers leave alone
matchVars == <<default_path, checked, pat, cmp>>

cfgVars == <<ENV, loaded, valued>>

timerVars == <<fresh, fire_log>>

serialVars == <<spc, ser, xbytes, sexc, heard>>

\* what Simulator.worker leaves alone outside the simulator
nonTimerVars == <<bridgeVars, mqttVars, matchVars, cfgVars, serialVars, late, torn>>
nonSimVars == <<nonTimerVars, timerVars>>
nonBridgeVars == <<simVars, mqttVars, matchVars, cfgVars, timerVars, serialVars, late, torn>>
nonMqttVars == <<matchVars, cfgVars, timerVars, serialVars, late, torn>>
nonMatchVars == <<simVars, bridgeVars, mqttVars, cfgVars, timerVars, serialVars, late, torn>>
nonCfgVars == <<simVars, bridgeVars, mqttVars, matchVars, timerVars, serialVars, late, torn>>
\* what Serial.worker leaves alone outside Serial
nonSerialVars == <<simVars, bridgeVars, mqttVars, matchVars, cfgVars, timerVars, torn>>

vars == <<sections, buffer, wpc, wphase, wcmd, wdata, widx, now, last_write,
          kpc, slept, replies, pre, got, call,
          scope, connected, th, fired, overlap, raced,
          client, link, subs, exit_event, mpc, mctx, mreconnect, mexc, waited,
          default_path, checked, pat, cmp,
          ENV, loaded, valued,
          fresh, fire_log,
          spc, ser, xbytes, sexc, heard, late, torn>>

-----------------------------------------------------------------------------
(* Bounds of the model *)

\* the most items the queue holds (the Queue itself is unbounded)
MaxBuffer == 2
\* the clock stops here
MaxTime == 2
\* the clock of the timed rules on their own stops here
MaxRuleTime == 4
\* the most calls of the line-arrival callback
MaxHeard == 2

-----------------------------------------------------------------------------
(* Configuration *)

\* config.value("pin")
Pin == "1234"
\* the sections of the configuration, in order: Simulator.sections keys
SectionCodes == <<"1", "2">>
\* the states a configured section starts in
SectionStates == {"READY", "ARMED"}
\* config.value("rules"): one timed rule, one without "time"
NoTime == -1
Rules == << [time |-> 1, write |-> <<"EVENT", "TICK">>],
            [time |-> NoTime, write |-> <<"EVENT", "NEVER">>] >>

NL == "\n"
\* words that match [0-9]+
DigitWords == {"1234", "9999", "1", "2", "99"}
\* what the writer may send: Serial.writeline(line) sends line + "\n"
CommandLines ==
    { <<p, c, z>> : p \in {"1234", "9999"}, c \in {"SET", "UNSET"},
                    z \in {"1", "2", "99"} }
    \cup { <<p, "STATE">> : p \in {"1234", "9999"} }
    \cup { <<"1234", "ARM", "1">>, <<"12x4", "STATE">>, <<"1234", "SET">> }
WriteInputs == { Append(l, NL) : l \in CommandLines }

-----------------------------------------------------------------------------
(* Section (l.35-55) *)

Section_str(code, state) == <<"STATE", code, state>>

PyNone == <<"None">>
OK == <<"OK">>

\* a set that reports the new state and forgets to store it
Section_set_forgets(code, state) ==
    IF state = "ARMED" THEN [state |-> state, ret |-> OK]
    ELSE [state |-> state, ret |-> Section_str(code, "ARMED")]

Section_set(code, state) ==
    IF state = "ARMED" THEN [state |-> state, ret |-> OK]
    ELSE IF state = "READY"
         THEN [state |-> "ARMED", ret |-> Section_str(code, "ARMED")]
         ELSE [state |-> state, ret |-> PyNone]

Section_unset(code, state) ==
    IF state = "READY" THEN [state |-> state, ret |-> OK]
    ELSE IF state = "ARMED"
         THEN [state |-> "READY", ret |-> Section_str(code, "READY")]
         ELSE [state |-> state, ret |-> PyNone]

-----------------------------------------------------------------------------
(* Simulator.write (l.78-114) *)

NO_ACCESS == <<"ERROR:", "3", "NO_ACCESS">>
\* an unknown code answered with the other error
INVALID_VALUE_as_no_access == <<"ERROR:", "3", "NO_ACCESS">>
INVALID_VALUE == <<"ERROR:", "4", "INVALID_VALUE">>

RECURSIVE strip_nl(_)
\* data.decode(encoding).strip("\n"), l.92
strip_nl(s) ==
    IF s = <<>> THEN s
    ELSE IF Head(s) = NL THEN strip_nl(Tail(s))
    ELSE IF s[Len(s)] = NL THEN strip_nl(SubSeq(s, 1, Len(s) - 1))
    ELSE s

\* "^(?P<pin>[0-9]+) (?P<command>SET|UNSET) (?P<code>[0-9]+)$", l.95-97
match_set_unset(s) ==
    /\ Len(s) = 3
    /\ s[1] \in DigitWords
    /\ s[2] \in {"SET", "UNSET"}
    /\ s[3] \in DigitWords

\* a STATE pattern that takes any word for the PIN
match_state_any_word(s) ==
    /\ Len(s) = 2
    /\ s[2] = "STATE"

\* "^(?P<pin>[0-9]+) (?P<command>STATE)$", l.110
match_state(s) ==
    /\ Len(s) = 2
    /\ s[1] \in DigitWords
    /\ s[2] = "STATE"

\* a PIN check that accepts every PIN
pin_ok_any(s) == s[1] \in DigitWords

\* _check_pin's test, l.87
pin_ok(s) == s[1] = Pin

\* self.sections.get(command.code) is not None, l.99-100
known(code) == code \in DOMAIN sections

Item(line, src, delay) == [line |-> line, src |-> src, delay |-> delay, cur |-> TRUE]

\* what the delay taken before a put makes of the item put
DelayOf == CASE slept = "fresh" -> "own"
             [] slept = "used"  -> "shared"
             [] OTHER           -> "none"

\* The STATE block, l.109-114, up to its first sleep.
EnterStateBlock(s) ==
    /\ wphase' = 2
    /\ IF match_state(s)
       THEN IF pin_ok(s)
            THEN /\ wpc' = "state_sleep"
                 /\ wdata' = <<>>
            ELSE /\ wpc' = "add_sleep"
                 /\ wdata' = NO_ACCESS
       ELSE /\ wpc' = "idle"
            /\ wdata' = <<>>

NoCall == [op |-> "none", code |-> "", before |-> "", after |-> "", ret |-> <<>>]

\* write(data) up to its first sleep: l.92-107
write(data) ==
    /\ wpc = "idle"
    /\ LET s == strip_nl(data) IN
       /\ wcmd' = s
       /\ pre' = sections
       /\ replies' = <<>>
       /\ got' = <<>>
       /\ slept' = "none"
       /\ widx' = 0
       /\ buffer' = [i \in 1..Len(buffer) |-> [buffer[i] EXCEPT !.cur = FALSE]]
       /\ IF match_set_unset(s)
          THEN IF pin_ok(s)
               THEN /\ wphase' = 1
                    /\ wpc' = "add_sleep"
                    /\ IF known(s[3])
                       THEN LET r == IF s[2] = "SET"
                                     THEN Section_set(s[3], sections[s[3]])
                                     ELSE Section_unset(s[3], sections[s[3]])
                            IN /\ sections' = [sections EXCEPT ![s[3]] = r.state]
                               /\ wdata' = r.ret
                               /\ call' = [op |-> s[2], code |-> s[3],
                                           before |-> sections[s[3]],
                                           after |-> r.state, ret |-> r.ret]
                       ELSE /\ wdata' = INVALID_VALUE
                            /\ call' = NoCall
                            /\ UNCHANGED sections
               ELSE /\ wphase' = 1
                    /\ wpc' = "add_sleep"
                    /\ wdata' = NO_ACCESS
                    /\ call' = NoCall
                    /\ UNCHANGED sections
          ELSE /\ EnterStateBlock(s)
               /\ call' = NoCall
               /\ UNCHANGED sections
    /\ UNCHANGED <<now, last_write, kpc>>
    /\ UNCHANGED nonSimVars

\* an _add_to_buffer that does not sleep
add_to_buffer_no_sleep ==
    /\ wpc = "add_sleep"
    /\ wpc' = "add_put"
    /\ UNCHANGED <<sections, buffer, wphase, wcmd, wdata, widx, now, last_write,
                   kpc, slept, replies, pre, got, call>>
    /\ UNCHANGED nonSimVars

\* time.sleep(self.response_delay) of _add_to_buffer, l.75
add_to_buffer_sleep ==
    /\ wpc = "add_sleep"
    /\ wpc' = "add_put"
    /\ slept' = "fresh"
    /\ UNCHANGED <<sections, buffer, wphase, wcmd, wdata, widx, now, last_write,
                   kpc, replies, pre, got, call>>
    /\ UNCHANGED nonSimVars

\* self.buffer.put(data) of _add_to_buffer, l.76, and what write does next
add_to_buffer_put ==
    /\ wpc = "add_put"
    /\ Len(buffer) < MaxBuffer
    /\ buffer' = Append(buffer, Item(wdata, "reply", DelayOf))
    /\ replies' = Append(replies, wdata)
    /\ slept' = "used"
    /\ IF wphase = 1
       THEN EnterStateBlock(wcmd)
       ELSE /\ wpc' = "idle"
            /\ wdata' = <<>>
            /\ UNCHANGED wphase
    /\ UNCHANGED <<sections, wcmd, widx, now, last_write, kpc, pre, got, call>>
    /\ UNCHANGED nonSimVars

\* time.sleep(self.response_delay), l.112
state_sleep ==
    /\ wpc = "state_sleep"
    /\ slept' = "fresh"
    /\ widx' = 1
    /\ wpc' = IF Len(SectionCodes) = 0 THEN "idle" ELSE "state_put"
    /\ UNCHANGED <<sections, buffer, wphase, wcmd, wdata, now, last_write, kpc,
                   replies, pre, got, call>>
    /\ UNCHANGED nonSimVars

\* an iteration in reverse order
section_at_reversed(i) == SectionCodes[Len(SectionCodes) + 1 - i]

\* the i-th of self.sections.values(): a dict keeps insertion order
section_at(i) == SectionCodes[i]

\* one round of: for section in self.sections.values(): self.buffer.put(str(section))
state_put ==
    /\ wpc = "state_put"
    /\ Len(buffer) < MaxBuffer
    /\ LET code == section_at(widx)
           line == Section_str(code, sections[code])
       IN /\ buffer' = Append(buffer, Item(line, "state", DelayOf))
          /\ replies' = Append(replies, line)
    /\ slept' = "used"
    /\ widx' = widx + 1
    /\ wpc' = IF widx = Len(SectionCodes) THEN "idle" ELSE "state_put"
    /\ UNCHANGED <<sections, wphase, wcmd, wdata, now, last_write, kpc, pre,
                   got, call>>
    /\ UNCHANGED nonSimVars

-----------------------------------------------------------------------------
(* Simulator.readline (l.116-120): a read that finds an item *)

readline ==
    /\ buffer # <<>>
    /\ buffer' = Tail(buffer)
    /\ got' = IF Head(buffer).cur THEN Append(got, Head(buffer).line) ELSE got
    /\ UNCHANGED <<sections, wpc, wphase, wcmd, wdata, widx, now, last_write,
                   kpc, slept, replies, pre, call>>
    /\ UNCHANGED nonSimVars

-----------------------------------------------------------------------------
(* Simulator.worker (l.122-131) *)

\* rule.get("time") is truthy, l.125
has_time(rule) == rule.time # NoTime /\ rule.time # 0

NextRule(i) == IF i < Len(Rules) THEN [i |-> i + 1, st |-> "check"]
               ELSE [i |-> 0, st |-> "wait"]

\* l.125-127
worker_check ==
    /\ kpc.st = "check"
    /\ IF has_time(Rules[kpc.i])
       THEN /\ last_write' = IF last_write[kpc.i] = NoTime
                             THEN [last_write EXCEPT ![kpc.i] = now]
                             ELSE last_write
            /\ fresh' = (kpc.i \in DOMAIN fire_log /\ last_write[kpc.i] = NoTime)
            /\ kpc' = [kpc EXCEPT !.st = "cmp"]
       ELSE /\ kpc' = NextRule(kpc.i)
            /\ UNCHANGED <<last_write, fresh>>
    /\ UNCHANGED <<sections, buffer, wpc, wphase, wcmd, wdata, widx, now, slept,
                   replies, pre, got, call, fire_log>>
    /\ UNCHANGED nonTimerVars

\* l.128-129
worker_fire ==
    /\ kpc.st = "cmp"
    /\ IF now - last_write[kpc.i] > Rules[kpc.i].time
       THEN /\ Len(buffer) < MaxBuffer
            /\ buffer' = Append(buffer,
                   [line |-> Rules[kpc.i].write, src |-> "rule",
                    delay |-> "none", cur |-> FALSE])
            /\ fire_log' = [i \in DOMAIN fire_log |->
                               IF i = kpc.i THEN Append(fire_log[i], now)
                               ELSE fire_log[i]]
            /\ kpc' = [kpc EXCEPT !.st = "stamp"]
            /\ UNCHANGED fresh
       ELSE /\ kpc' = NextRule(kpc.i)
            /\ fresh' = FALSE
            /\ UNCHANGED <<buffer, fire_log>>
    /\ UNCHANGED <<sections, wpc, wphase, wcmd, wdata, widx, now, last_write,
                   slept, replies, pre, got, call>>
    /\ UNCHANGED nonTimerVars

\* a rule that fires and keeps its last-fire time
worker_stamp_keeps ==
    /\ kpc.st = "stamp"
    /\ kpc' = NextRule(kpc.i)
    /\ fresh' = FALSE
    /\ UNCHANGED <<sections, buffer, wpc, wphase, wcmd, wdata, widx, now, slept,
                   replies, pre, got, call, fire_log, last_write>>
    /\ UNCHANGED nonTimerVars

\* l.130
worker_stamp ==
    /\ kpc.st = "stamp"
    /\ last_write' = [last_write EXCEPT ![kpc.i] = now]
    /\ kpc' = NextRule(kpc.i)
    /\ fresh' = FALSE
    /\ UNCHANGED <<sections, buffer, wpc, wphase, wcmd, wdata, widx, now, slept,
                   replies, pre, got, call, fire_log>>
    /\ UNCHANGED nonTimerVars

\* exit_event.wait(1), l.131, and the test of the loop, l.123: the next round,
\* or the end of the worker when the event is set
worker_wait ==
    /\ kpc.st = "wait"
    /\ kpc' = IF exit_event THEN [i |-> 0, st |-> "done"]
              ELSE IF Len(Rules) = 0 THEN kpc ELSE [i |-> 1, st |-> "check"]
    /\ late' = [late EXCEPT !.simulator = IF exit_event THEN @ + 1 ELSE @]
    /\ UNCHANGED <<sections, buffer, wpc, wphase, wcmd, wdata, widx, now,
                   last_write, slept, replies, pre, got, call>>
    /\ UNCHANGED <<bridgeVars, mqttVars, matchVars, cfgVars, serialVars, timerVars, torn>>

\* the clock moves on, up to limit
clock_tick(limit) ==
    /\ now < limit
    /\ now' = now + 1
    /\ UNCHANGED <<sections, buffer, wpc, wphase, wcmd, wdata, widx, last_write,
                   kpc, slept, replies, pre, got, call>>
    /\ UNCHANGED nonSimVars

\* time passes
Tick == clock_tick(MaxTime)

-----------------------------------------------------------------------------
(* The simulator: one writer (Serial.writeline), one reader (Serial.worker), *)
(* the simulator's own worker thread, and the clock.                        *)

\* the history of the rules in obs is kept; none has been evaluated
InitTimerVars(obs) ==
    /\ fresh = FALSE
    /\ fire_log = [i \in obs |-> <<>>]

InitSimVars ==
    /\ sections \in [{SectionCodes[i] : i \in 1..Len(SectionCodes)} -> SectionStates]
    /\ buffer = <<>>
    /\ wpc = "idle"
    /\ wphase = 1
    /\ wcmd = <<>>
    /\ wdata = <<>>
    /\ widx = 0
    /\ now = 0
    /\ last_write = [i \in 1..Len(Rules) |-> NoTime]
    /\ kpc = [i |-> 0, st |-> "wait"]
    /\ slept = "none"
    /\ replies = <<>>
    /\ pre = sections
    /\ got = <<>>
    /\ call = NoCall

-----------------------------------------------------------------------------
(* The topic-definition document of the bridge (l.334-339).                *)
(* A serial2mqtt rule's read is a literal line or a !py pattern(...): the  *)
(* lines it equals are `matches`.  An mqtt2serial rule's read is a mapping *)
(* of expected properties.  A write either refers to `data` or not, and    *)
(* `fails` when its expression raises whatever the scope holds.            *)

Serial2Mqtt == <<
    [name |-> "ja/state", disabled |-> FALSE, rules |-> <<
        [read |-> [py |-> FALSE, matches |-> {"A"}],
         write |-> [uses_data |-> TRUE, fails |-> FALSE]],
        [read |-> [py |-> TRUE, matches |-> {"A", "B"}],
         write |-> [uses_data |-> FALSE, fails |-> FALSE]] >>],
    [name |-> "ja/off", disabled |-> TRUE, rules |-> <<
        [read |-> [py |-> FALSE, matches |-> {"A"}],
         write |-> [uses_data |-> FALSE, fails |-> FALSE]] >>],
    [name |-> "ja/bad", disabled |-> FALSE, rules |-> <<
        [read |-> [py |-> FALSE, matches |-> {"B"}],
         write |-> [uses_data |-> FALSE, fails |-> TRUE]] >>] >>

Mqtt2Serial == <<
    [name |-> "alarm/set", disabled |-> FALSE, rules |-> <<
        [read |-> [command |-> "arm"],
         write |-> [uses_data |-> TRUE, fails |-> FALSE]],
        [read |-> [command |-> "disarm"],
         write |-> [uses_data |-> FALSE, fails |-> FALSE]] >>],
    [name |-> "alarm/off", disabled |-> TRUE, rules |-> <<
        [read |-> [command |-> "arm"],
         write |-> [uses_data |-> FALSE, fails |-> FALSE]] >>],
    [name |-> "alarm/set", disabled |-> FALSE, rules |-> <<
        [read |-> [command |-> "disarm"],
         write |-> [uses_data |-> FALSE, fails |-> FALSE]] >>] >>

\* the lines the panel sends
SerialLines == {"A", "B"}
\* the messages the broker delivers: a topic and a payload, JSON or not
Payloads == { [json |-> TRUE, obj |-> [command |-> "arm"]],
              [json |-> TRUE, obj |-> [command |-> "disarm"]],
              [json |-> FALSE, obj |-> [command |-> "{"]] }
Messages == { [topic |-> "alarm/set", payload |-> p] : p \in Payloads }
            \cup { [topic |-> "alarm/off", payload |-> [json |-> TRUE, obj |-> [command |-> "arm"]]] }

Threads == {"serial", "mqtt"}
Other(t) == IF t = "serial" THEN "mqtt" ELSE "serial"
Topics(t) == IF t = "serial" THEN Serial2Mqtt ELSE Mqtt2Serial

-----------------------------------------------------------------------------
(* SerialMQTTBridge.scope / update_scope (l.351-367) *)

StaticScope == [topology |-> "topology", pattern |-> "pattern", format |-> "format"]

\* self._scope[key] = value, l.364
scope_with_data(sc, value) ==
    [k \in DOMAIN sc \cup {"data"} |-> IF k = "data" THEN value ELSE sc[k]]

\* a del that deletes nothing
scope_without_data_keeps(sc) == sc

\* del self._scope[key], l.367
scope_without_data(sc) == [k \in DOMAIN sc \ {"data"} |-> sc[k]]

\* what a handler binds as data: Map(data), l.388, and _data, l.412
DataOf(t, ev) == [from |-> t, ev |-> ev]

-----------------------------------------------------------------------------
(* The loops over topics and rules (l.383-385, l.404-406) *)

\* a loop that does not look at topic.disabled
Eligible_ignores_disabled(t, ev, ti) ==
    t = "mqtt" => Topics(t)[ti].name = ev.topic

\* not topic.disabled [and topic.name == topic_name]
Eligible(t, ev, ti) ==
    /\ ~Topics(t)[ti].disabled
    /\ t = "mqtt" => Topics(t)[ti].name = ev.topic

RECURSIVE FirstTopicFrom(_, _, _)
\* the first topic at or after ti whose rules the loop enters, 0 if none
FirstTopicFrom(t, ev, ti) ==
    IF ti > Len(Topics(t)) THEN 0
    ELSE IF Eligible(t, ev, ti) /\ Len(Topics(t)[ti].rules) > 0 THEN ti
    ELSE FirstTopicFrom(t, ev, ti + 1)

\* the rule the loops reach after rule ri of topic ti; ti = 0 starts them
NextPos(t, ev, ti, ri) ==
    IF ti > 0 /\ ri < Len(Topics(t)[ti].rules)
    THEN [ti |-> ti, ri |-> ri + 1]
    ELSE LET n == FirstTopicFrom(t, ev, ti + 1)
         IN [ti |-> n, ri |-> IF n = 0 THEN 0 ELSE 1]

RuleAt(t, r) == Topics(t)[r.ti].rules[r.ri]

InFlight(t) == th[t].st \notin {"idle", "dead"}

\* an on_message without its except clause: the exception ends the thread
EndWith_uncaught(t, r, exc) == [r EXCEPT !.st = "dead", !.exc = "", !.err = exc]

\* An exception leaves the handler.  MQTT.on_message catches and logs it
\* (l.218-223); Serial.worker has no except clause, so its finally closes the
\* transport and the thread ends (l.176-185).
EndWith(t, r, exc) ==
    IF t = "mqtt" THEN [r EXCEPT !.st = "idle", !.exc = "", !.err = exc]
    ELSE [r EXCEPT !.st = "dead", !.exc = "", !.err = exc]

\* the loops go on to the next rule, or the handler returns
Advance(t, r) ==
    LET p == NextPos(t, r.ev, r.ti, r.ri) IN
    IF p.ti = 0 THEN [r EXCEPT !.st = "idle", !.err = ""]
    ELSE [r EXCEPT !.st = "read", !.ti = p.ti, !.ri = p.ri]

\* the handler begins its loops for event ev
Begin(t, ev) ==
    Advance(t, [st |-> "idle", ti |-> 0, ri |-> 0, ev |-> ev, exc |-> "", err |-> ""])

\* a try block without its finally: an exception skips the cleanup
AfterTry_no_finally(t, r, exc) ==
    IF exc = "" THEN [r EXCEPT !.st = "rm_check", !.exc = exc]
    ELSE EndWith(t, r, exc)

\* finally: self.update_scope("data", remove=True), l.393-394 and l.421-422
AfterTry(t, r, exc) == [r EXCEPT !.st = "rm_check", !.exc = exc]

\* what the start of t's handler makes of the overlap history
OverlapAtBegin(t, started) ==
    IF started
    THEN [u \in Threads |-> IF u = t THEN InFlight(Other(t))
                            ELSE overlap[u] \/ InFlight(u)]
    ELSE [overlap EXCEPT ![t] = FALSE]

-----------------------------------------------------------------------------
(* MQTT callbacks (l.218-236) *)

\* on_connect, l.226: called from client.loop on the MQTT thread
on_connect ==
    /\ ~InFlight("mqtt")
    /\ ~connected
    /\ connected' = TRUE
    /\ UNCHANGED <<scope, th, fired, overlap, raced>>
    /\ UNCHANGED nonBridgeVars

\* on_disconnect, l.236
on_disconnect ==
    /\ ~InFlight("mqtt")
    /\ connected
    /\ connected' = FALSE
    /\ UNCHANGED <<scope, th, fired, overlap, raced>>
    /\ UNCHANGED nonBridgeVars

-----------------------------------------------------------------------------
(* Topic.check_rule_data (l.304-322) for a read of literal properties *)

check_rule_data(read, data) ==
    IF \E k \in DOMAIN read : k \notin DOMAIN data THEN "Missing property"
    ELSE IF \E k \in DOMAIN read : read[k] # data[k] THEN "Invalid value"
    ELSE "ok"

-----------------------------------------------------------------------------
(* SerialMQTTBridge.on_mqtt_message (l.373-394), called by MQTT.on_message *)

\* l.374-385: decode, parse, and enter the loops
on_mqtt_message(m) ==
    /\ th["mqtt"].st = "idle"
    /\ connected
    /\ LET r == IF m.payload.json
                THEN Begin("mqtt", [topic |-> m.topic, data |-> m.payload.obj])
                ELSE EndWith("mqtt", [st |-> "idle", ti |-> 0, ri |-> 0,
                                      ev |-> [topic |-> m.topic, data |-> m.payload.obj],
                                      exc |-> "", err |-> ""],
                             "Cannot parse the event data")
       IN /\ th' = [th EXCEPT !["mqtt"] = r]
          /\ overlap' = OverlapAtBegin("mqtt", r.st # "idle")
    /\ fired' = [fired EXCEPT !["mqtt"] = <<>>]
    /\ UNCHANGED <<scope, connected, raced>>
    /\ UNCHANGED nonBridgeVars

\* topic.check_rule_data(rule.read, data, self.scope()), l.386
mqtt_check_rule_data ==
    /\ th["mqtt"].st = "read"
    /\ LET r == th["mqtt"]
           v == check_rule_data(RuleAt("mqtt", r).read, r.ev.data)
       IN th' = [th EXCEPT !["mqtt"] =
                    IF v = "ok" THEN [r EXCEPT !.st = "bind"]
                    ELSE EndWith("mqtt", r, v)]
    /\ UNCHANGED <<scope, connected, fired, overlap, raced>>
    /\ UNCHANGED nonBridgeVars

-----------------------------------------------------------------------------
(* SerialMQTTBridge.on_serial_data (l.396-422), called by Serial.worker *)

\* an on_serial_data without the test of self.mqtt.connected
on_serial_data_unchecked(line) ==
    /\ th["serial"].st = "idle"
    /\ LET r == Begin("serial", [line |-> line])
       IN /\ th' = [th EXCEPT !["serial"] = r]
          /\ overlap' = OverlapAtBegin("serial", r.st # "idle")
    /\ fired' = [fired EXCEPT !["serial"] = <<>>]
    /\ UNCHANGED <<scope, connected, raced>>
    /\ UNCHANGED nonBridgeVars

\* l.397-406: drop the line when not connected, else enter the loops
on_serial_data(line) ==
    /\ th["serial"].st = "idle"
    /\ LET r == IF connected THEN Begin("serial", [line |-> line])
                ELSE [st |-> "idle", ti |-> 0, ri |-> 0, ev |-> [line |-> line],
                      exc |-> "", err |-> "not connected"]
       IN /\ th' = [th EXCEPT !["serial"] = r]
          /\ overlap' = OverlapAtBegin("serial", r.st # "idle")
    /\ fired' = [fired EXCEPT !["serial"] = <<>>]
    /\ UNCHANGED <<scope, connected, raced>>
    /\ UNCHANGED nonBridgeVars

\* l.407-411: _data = rule.read or its evaluation; _data == data
serial_match_read ==
    /\ th["serial"].st = "read"
    /\ LET r == th["serial"] IN
       th' = [th EXCEPT !["serial"] =
                 IF r.ev.line \in RuleAt("serial", r).read.matches
                 THEN [r EXCEPT !.st = "bind"]
                 ELSE Advance("serial", r)]
    /\ UNCHANGED <<scope, connected, fired, overlap, raced>>
    /\ UNCHANGED nonBridgeVars

-----------------------------------------------------------------------------
(* The steps both handlers share *)

\* an update_scope that binds nothing
update_scope_set_nothing(t) ==
    /\ th[t].st = "bind"
    /\ th' = [th EXCEPT ![t].st = "eval"]
    /\ UNCHANGED <<scope, connected, fired, overlap, raced>>
    /\ UNCHANGED nonBridgeVars

\* self.update_scope("data", ...), l.388 and l.412
update_scope_set(t) ==
    /\ th[t].st = "bind"
    /\ scope' = scope_with_data(scope, DataOf(t, th[t].ev))
    /\ th' = [th EXCEPT ![t].st = "eval"]
    /\ UNCHANGED <<connected, fired, overlap, raced>>
    /\ UNCHANGED nonBridgeVars

\* how the write is evaluated when the scope does not hold the handler's data
RaceKind(t) ==
    IF "data" \notin DOMAIN scope THEN {"absent"}
    ELSE IF scope["data"].from # t THEN {"foreign"}
    ELSE {}

\* deep_eval(rule.write, self._scope) and serial.writeline / client.publish:
\* l.390-392 and l.414-420.  The write or the publish may fail (io).
eval_write(t) ==
    /\ th[t].st = "eval"
    /\ raced' = raced \cup RaceKind(t)
    /\ LET r == th[t]
           w == RuleAt(t, r).write
       IN IF w.fails \/ (w.uses_data /\ "data" \notin DOMAIN scope)
          THEN /\ th' = [th EXCEPT ![t] = AfterTry(t, r, "expression")]
               /\ UNCHANGED fired
          ELSE \E io_ok \in BOOLEAN :
                 IF io_ok
                 THEN /\ th' = [th EXCEPT ![t] = AfterTry(t, r, "")]
                      /\ fired' = [fired EXCEPT ![t] = Append(@, <<r.ti, r.ri>>)]
                 ELSE /\ th' = [th EXCEPT ![t] = AfterTry(t, r, "io")]
                      /\ UNCHANGED fired
    /\ UNCHANGED <<scope, connected, overlap>>
    /\ UNCHANGED nonBridgeVars

\* update_scope(remove=True): if key in self._scope, l.366
update_scope_check(t) ==
    /\ th[t].st = "rm_check"
    /\ LET r == th[t] IN
       th' = [th EXCEPT ![t] =
                 IF "data" \in DOMAIN scope THEN [r EXCEPT !.st = "rm_del"]
                 ELSE IF r.exc # "" THEN EndWith(t, r, r.exc)
                 ELSE Advance(t, r)]
    /\ UNCHANGED <<scope, connected, fired, overlap, raced>>
    /\ UNCHANGED nonBridgeVars

\* update_scope(remove=True): del self._scope[key], l.367; a key the other
\* thread has deleted meanwhile raises KeyError
update_scope_del(t) ==
    /\ th[t].st = "rm_del"
    /\ LET r == th[t] IN
       IF "data" \in DOMAIN scope
       THEN /\ scope' = scope_without_data(scope)
            /\ th' = [th EXCEPT ![t] = IF r.exc # "" THEN EndWith(t, r, r.exc)
                                       ELSE Advance(t, r)]
       ELSE /\ th' = [th EXCEPT ![t] = EndWith(t, r, "KeyError")]
            /\ UNCHANGED scope
    /\ UNCHANGED <<connected, fired, overlap, raced>>
    /\ UNCHANGED nonBridgeVars

-----------------------------------------------------------------------------
(* MQTT: the client handle and the thread of MQTT.worker *)

\* the most mqtt.Client objects init_client creates (the code sets no limit)
MaxClients == 3
\* the most connect calls that fail (the code sets no limit)
MaxWaits == 2

\* an on_mqtt_connect that passes over the disabled topics
on_mqtt_connect_enabled_only ==
    { Mqtt2Serial[i].name : i \in {j \in 1..Len(Mqtt2Serial) : ~Mqtt2Serial[j].disabled} }

\* l.369-371, l.243-245: the topic names on_mqtt_connect subscribes
on_mqtt_connect == { Mqtt2Serial[i].name : i \in 1..Len(Mqtt2Serial) }

\* no client has been disconnected by wait_for_connection
NoTeardown == [call |-> "none", flag |-> FALSE, link |-> "none"]

\* l.248: the test that opens wait_for_connection.  It holds at every call
\* the worker makes: l.267 finds no client, l.273 follows "not self.connected"
\* on the same thread, l.276 passes reconnect=True.
must_connect == mreconnect \/ client = 0 \/ ~connected

\* wait_for_connection returns to the loop of the worker
wfc_return == mpc' = "loop" /\ UNCHANGED <<mctx, mreconnect, mexc>>

\* An exception leaves wait_for_connection.  The call of l.267 stands outside
\* every try: the exception leaves the worker.  The call of l.273 stands in
\* the try of l.270: the handler of l.274-276 calls wait_for_connection again
\* with reconnect=True.  The call of l.276 stands in that handler: the
\* exception leaves the loop through the finally of l.277.
wfc_raise ==
    CASE mctx = "first"   -> mpc' = "crashed" /\ UNCHANGED <<mctx, mreconnect, mexc>>
      [] mctx = "loop"    -> mpc' = "wfc" /\ mctx' = "handler" /\ mreconnect' = TRUE
                             /\ UNCHANGED mexc
      [] mctx = "handler" -> mpc' = "finally" /\ mexc' = TRUE
                             /\ UNCHANGED <<mctx, mreconnect>>

\* l.267: the worker begins with wait_for_connection(exit_event)
mqtt_worker_start ==
    /\ mpc = "start"
    /\ mpc' = "wfc" /\ mctx' = "first" /\ mreconnect' = FALSE
    /\ UNCHANGED <<client, link, subs, exit_event, mexc, waited>>
    /\ UNCHANGED <<simVars, bridgeVars, nonMqttVars>>

\* l.249-252, l.238-241: disconnect the old client, clear the flag, and make
\* a new client, which has no connection and no subscription
wait_for_connection_init ==
    /\ mpc = "wfc" /\ must_connect
    /\ client < MaxClients
    /\ connected' = IF client # 0 THEN FALSE ELSE connected
    /\ client' = client + 1
    /\ link' = "none"
    /\ subs' = {}
    /\ mpc' = "connect"
    /\ torn' = IF client # 0 THEN [call |-> mctx, flag |-> connected, link |-> link]
               ELSE torn
    /\ UNCHANGED <<exit_event, mctx, mreconnect, mexc, waited>>
    /\ UNCHANGED <<simVars, scope, th, fired, overlap, raced>>
    /\ UNCHANGED <<matchVars, cfgVars, timerVars, serialVars, late>>

\* l.250: self.client.disconnect() raises; no try stands around it
wait_for_connection_disconnect_raises ==
    /\ mpc = "wfc" /\ must_connect
    /\ client # 0
    /\ wfc_raise
    /\ UNCHANGED <<client, link, subs, exit_event, waited>>
    /\ UNCHANGED <<simVars, bridgeVars, nonMqttVars>>

\* l.253-257: connect succeeds and ends the loop; CONNACK is still to come
connect_ok ==
    /\ mpc = "connect" /\ ~exit_event
    /\ link' = "pending"
    /\ wfc_return
    /\ UNCHANGED <<client, subs, exit_event, waited>>
    /\ UNCHANGED <<simVars, bridgeVars, nonMqttVars>>

\* l.258-263: connect raises; the exception is logged and the thread waits
connect_fails ==
    /\ mpc = "connect" /\ ~exit_event
    /\ waited < MaxWaits
    /\ mpc' = "wait"
    /\ waited' = waited + 1
    /\ UNCHANGED <<client, link, subs, exit_event, mctx, mreconnect, mexc>>
    /\ UNCHANGED <<simVars, bridgeVars, nonMqttVars>>

\* l.264: exit_event.wait(self.reconnect_after) returns, after the interval
\* or as soon as the event is set
reconnect_wait ==
    /\ mpc = "wait"
    /\ mpc' = "connect"
    /\ late' = [late EXCEPT !.mqtt = IF exit_event THEN @ + 1 ELSE @]
    /\ UNCHANGED <<client, link, subs, exit_event, mctx, mreconnect, mexc, waited>>
    /\ UNCHANGED <<simVars, bridgeVars, matchVars, cfgVars, timerVars, serialVars, torn>>

\* a retry loop that does not test the event: it waits and tries again
connect_cancelled_retries ==
    /\ mpc = "connect" /\ exit_event
    /\ mpc' = "wait"
    /\ UNCHANGED <<client, link, subs, exit_event, mctx, mreconnect, mexc, waited>>
    /\ UNCHANGED <<simVars, bridgeVars, nonMqttVars>>

\* l.253: the event is set, the loop ends without a connection
connect_cancelled ==
    /\ mpc = "connect" /\ exit_event
    /\ wfc_return
    /\ UNCHANGED <<client, link, subs, exit_event, waited>>
    /\ UNCHANGED <<simVars, bridgeVars, nonMqttVars>>

\* the program sets the exit event
set_exit ==
    /\ ~exit_event
    /\ exit_event' = TRUE
    /\ UNCHANGED <<client, link, subs, mpc, mctx, mreconnect, mexc, waited>>
    /\ UNCHANGED <<simVars, bridgeVars, nonMqttVars>>

\* l.272-273: after client.loop has returned
after_loop(c) ==
    IF c THEN mpc' = "loop" /\ UNCHANGED <<mctx, mreconnect>>
         ELSE mpc' = "wfc" /\ mctx' = "loop" /\ mreconnect' = FALSE

\* l.269: the event is set, the loop ends
loop_exit ==
    /\ mpc = "loop" /\ exit_event
    /\ mpc' = "finally"
    /\ UNCHANGED <<client, link, subs, exit_event, mctx, mreconnect, mexc, waited>>
    /\ UNCHANGED <<simVars, bridgeVars, nonMqttVars>>

\* l.271: client.loop returns and has called nothing
loop_idle ==
    /\ mpc = "loop" /\ ~exit_event
    /\ after_loop(connected)
    /\ UNCHANGED <<client, link, subs, exit_event, mexc, waited>>
    /\ UNCHANGED <<simVars, bridgeVars, nonMqttVars>>

\* l.271, l.225-230, l.369-371: client.loop reads CONNACK and calls
\* on_connect, which sets the flag and subscribes the topics
loop_on_connect ==
    /\ mpc = "loop" /\ ~exit_event
    /\ link = "pending"
    /\ link' = "up"
    /\ connected' = TRUE
    /\ subs' = subs \cup on_mqtt_connect
    /\ after_loop(TRUE)
    /\ UNCHANGED <<client, exit_event, mexc, waited>>
    /\ UNCHANGED <<simVars, scope, th, fired, overlap, raced, nonMqttVars>>

\* l.271, l.232-236: client.loop finds the connection gone and calls
\* on_disconnect, which clears the flag
loop_on_disconnect ==
    /\ mpc = "loop" /\ ~exit_event
    /\ link \in {"pending", "up"}
    /\ link' = "none"
    /\ connected' = FALSE
    /\ after_loop(FALSE)
    /\ UNCHANGED <<client, subs, exit_event, mexc, waited>>
    /\ UNCHANGED <<simVars, scope, th, fired, overlap, raced, nonMqttVars>>

\* l.274-276: client.loop raises; the handler logs and calls
\* wait_for_connection(exit_event, reconnect=True)
loop_raises ==
    /\ mpc = "loop" /\ ~exit_event
    /\ mpc' = "wfc" /\ mctx' = "handler" /\ mreconnect' = TRUE
    /\ UNCHANGED <<client, link, subs, exit_event, mexc, waited>>
    /\ UNCHANGED <<simVars, bridgeVars, nonMqttVars>>

\* l.277-279: the finally clause; with the flag set the client is
\* disconnected, and the flag stays as it is: no loop runs on_disconnect
mqtt_worker_finally ==
    /\ mpc = "finally"
    /\ mpc' = IF mexc THEN "crashed" ELSE "done"
    /\ link' = IF connected THEN "none" ELSE link
    /\ UNCHANGED <<client, subs, exit_event, mctx, mreconnect, mexc, waited>>
    /\ UNCHANGED <<simVars, bridgeVars, nonMqttVars>>

\* l.278-279: the disconnect of the finally clause raises
mqtt_worker_finally_raises ==
    /\ mpc = "finally" /\ connected
    /\ mpc' = "crashed"
    /\ UNCHANGED <<client, link, subs, exit_event, mctx, mreconnect, mexc, waited>>
    /\ UNCHANGED <<simVars, bridgeVars, nonMqttVars>>

\* l.198-210: MQTT after construction, its worker not yet started
InitMqttVars ==
    /\ client = 0
    /\ link = "none"
    /\ subs = {}
    /\ exit_event = FALSE
    /\ mpc = "start"
    /\ mctx = "first"
    /\ mreconnect = FALSE
    /\ mexc = FALSE
    /\ waited = 0
    /\ late = [simulator |-> 0, mqtt |-> 0, serial |-> 0]
    /\ torn = NoTeardown

-----------------------------------------------------------------------------
(* Serial.worker (l.176-185)                                               *)
(*                                                                         *)
(* The bytes of a read are the sequence of their words; the byte \n is the *)
(* word NL, the byte \r the word CR, and a byte outside the encoding the   *)
(* word xFF.  The text handed to on_data is a sequence of words too.       *)

\* what self.ser.readline() can return: nothing within the timeout, a line
\* of the simulator (no newline), lines of the port
Reads == { <<>>, <<"OK">>, <<"OK", "NL">>, <<"OK", "CR", "NL">>,
           <<"NL">>, <<"CR", "OK", "NL">>, <<"xFF", "NL">> }

\* x before the first read
NoRead == <<"None">>

\* x.decode(self.encoding) raises
undecodable(bytes) == \E i \in 1..Len(bytes) : bytes[i] = "xFF"

\* str.strip("\r\n"): the leading and the trailing \r and \n removed
RECURSIVE lstrip(_)
lstrip(t) == IF t # <<>> /\ Head(t) \in {"CR", "NL"} THEN lstrip(Tail(t)) ELSE t

RECURSIVE rstrip(_)
rstrip(t) == IF t # <<>> /\ t[Len(t)] \in {"CR", "NL"}
             THEN rstrip(SubSeq(t, 1, Len(t) - 1)) ELSE t

strip_crlf(t) == rstrip(lstrip(t))

\* l.177: self.open(), before the try
serial_open ==
    /\ spc = "start"
    /\ ser' = [ser EXCEPT !.st = "open", !.opens = @ + 1]
    /\ spc' = "test"
    /\ UNCHANGED <<xbytes, sexc, heard, late>>
    /\ UNCHANGED nonSerialVars

\* l.177: self.ser.open() raises; the call stands before the try
serial_open_raises ==
    /\ spc = "start"
    /\ sexc' = TRUE
    /\ spc' = "done"
    /\ UNCHANGED <<ser, xbytes, heard, late>>
    /\ UNCHANGED nonSerialVars

\* l.179: the event is set, the loop ends
serial_exit ==
    /\ spc = "test" /\ exit_event
    /\ spc' = "finally"
    /\ UNCHANGED <<ser, xbytes, sexc, heard, late>>
    /\ UNCHANGED nonSerialVars

\* l.179-180: the event is not set; x = self.ser.readline() returns bytes
serial_readline(bytes) ==
    /\ spc = "test" /\ ~exit_event
    /\ (bytes # <<>> /\ ~undecodable(bytes)) => Len(heard) < MaxHeard
    /\ xbytes' = bytes
    /\ ser' = [ser EXCEPT !.blind = @ \/ ser.st # "open"]
    /\ spc' = "read"
    /\ UNCHANGED <<sexc, heard, late>>
    /\ UNCHANGED nonSerialVars

\* l.180: self.ser.readline() raises; the finally clause is next
serial_readline_raises ==
    /\ spc = "test" /\ ~exit_event
    /\ ser' = [ser EXCEPT !.blind = @ \/ ser.st # "open"]
    /\ sexc' = TRUE
    /\ spc' = "finally"
    /\ UNCHANGED <<xbytes, heard, late>>
    /\ UNCHANGED nonSerialVars

\* l.181-182: nothing read, no call; bytes outside the encoding, decode
\* raises; else on_data is called with the decoded, stripped text
serial_dispatch ==
    /\ spc = "read"
    /\ IF xbytes = <<>>
       THEN spc' = "wait" /\ UNCHANGED <<sexc, heard>>
       ELSE IF undecodable(xbytes)
       THEN spc' = "finally" /\ sexc' = TRUE /\ UNCHANGED heard
       ELSE /\ heard' = Append(heard, [raw |-> xbytes, text |-> strip_crlf(xbytes)])
            /\ spc' = "on_data"
            /\ UNCHANGED sexc
    /\ UNCHANGED <<ser, xbytes, late>>
    /\ UNCHANGED nonSerialVars

\* l.182: self.on_data returns
on_data_returns ==
    /\ spc = "on_data"
    /\ spc' = "wait"
    /\ UNCHANGED <<ser, xbytes, sexc, heard, late>>
    /\ UNCHANGED nonSerialVars

\* an exception of the callback that leaves the worker at once
on_data_raises_unreleased ==
    /\ spc = "on_data"
    /\ sexc' = TRUE
    /\ spc' = "done"
    /\ UNCHANGED <<ser, xbytes, heard, late>>
    /\ UNCHANGED nonSerialVars

\* l.182: self.on_data raises; the finally clause is next
on_data_raises ==
    /\ spc = "on_data"
    /\ sexc' = TRUE
    /\ spc' = "finally"
    /\ UNCHANGED <<ser, xbytes, heard, late>>
    /\ UNCHANGED nonSerialVars

\* l.183: exit_event.wait(0.2) returns, after the interval or as soon as the
\* event is set
serial_wait ==
    /\ spc = "wait"
    /\ spc' = "test"
    /\ late' = [late EXCEPT !.serial = IF exit_event THEN @ + 1 ELSE @]
    /\ UNCHANGED <<ser, xbytes, sexc, heard>>
    /\ UNCHANGED nonSerialVars

\* l.184-185: finally: self.close(); the worker ends, with the exception if
\* there is one
serial_close ==
    /\ spc = "finally"
    /\ ser' = [ser EXCEPT !.st = "closed", !.closes = @ + 1]
    /\ spc' = "done"
    /\ UNCHANGED <<xbytes, sexc, heard, late>>
    /\ UNCHANGED nonSerialVars

\* l.139-162: Serial after construction (do_not_open=True), its worker not
\* yet started
InitSerialVars ==
    /\ spc = "start"
    /\ ser = [st |-> "new", opens |-> 0, closes |-> 0, blind |-> FALSE]
    /\ xbytes = NoRead
    /\ sexc = FALSE
    /\ heard = <<>>

-----------------------------------------------------------------------------
(* Topic.check_rule_data (l.304-322) and Pattern (l.282-293)               *)
(*                                                                         *)
(* A dict is the sequence of its items <<key, value>> in insertion order.  *)
(* A value is [t |-> "int" | "str", v |-> its text], a dict                *)
(* [t |-> "dict", d |-> items], or a PythonExpression                      *)
(* [t |-> "expr", val |-> the value eval returns].                         *)

\* the longest default list a call starts with (the list grows without limit)
MaxPath == 3

PyInt(x) == [t |-> "int", v |-> x]
PyStr(x) == [t |-> "str", v |-> x]
PyDict(items) == [t |-> "dict", d |-> items]
PyExpr(x) == [t |-> "expr", val |-> x]

\* k in data.keys()
HasKey(data, k) == \E i \in 1..Len(data.d) : data.d[i][1] = k
\* data[k]
GetItem(data, k) == data.d[CHOOSE i \in 1..Len(data.d) : data.d[i][1] = k][2]

\* v.eval(scope)
PythonExpression_eval(v) == v.val

\* v != data[k] of two values that are not both dicts of different shape
PyNe(v, a) ==
    \/ v.t # a.t
    \/ v.t = "dict" /\ v.d # a.d
    \/ v.t # "dict" /\ v.v # a.v

\* l.305-322: the loop over read.items().  path is one list object: path += [k]
\* appends to it in place and nothing removes a key, so the result carries
\* the list as the call leaves it.  named is the property the message names:
\* k alone at l.308, '.'.join(path) at l.312 and l.320.
RECURSIVE check_rule_data_items(_, _, _)
check_rule_data_items(items, data, path) ==
    IF items = <<>> THEN [status |-> "ok", named |-> <<>>, path |-> path]
    ELSE LET k == items[1][1]
             v == items[1][2]
             p == Append(path, k)
         IN IF ~HasKey(data, k)
            THEN [status |-> "Missing property", named |-> <<k>>, path |-> p]
            ELSE LET a == GetItem(data, k) IN
                 IF v.t # "expr" /\ v.t # a.t
                 THEN [status |-> "Invalid type", named |-> p, path |-> p]
                 ELSE IF v.t = "dict"
                 THEN LET r == check_rule_data_items(v.d, a, p)
                      IN IF r.status # "ok" THEN r
                         ELSE check_rule_data_items(Tail(items), data, r.path)
                 ELSE LET w == IF v.t = "expr" THEN PythonExpression_eval(v) ELSE v
                      IN IF PyNe(w, a)
                         THEN [status |-> "Invalid value", named |-> p, path |-> p]
                         ELSE check_rule_data_items(Tail(items), data, p)

\* the read specifications and the payloads of the calls
Expected == {
    PyDict(<< <<"a", PyInt("1")>>, <<"b", PyInt("2")>> >>),
    PyDict(<< <<"a", PyDict(<< <<"b", PyInt("1")>> >>)>> >>),
    PyDict(<< <<"a", PyDict(<< <<"b", PyInt("1")>> >>)>>, <<"c", PyExpr(PyStr("x"))>> >>) }
Actual == {
    PyDict(<< <<"a", PyInt("1")>>, <<"b", PyInt("2")>> >>),
    PyDict(<< <<"b", PyInt("3")>>, <<"a", PyInt("1")>> >>),
    PyDict(<< <<"a", PyInt("1")>>, <<"b", PyStr("2")>> >>),
    PyDict(<< <<"a", PyInt("1")>> >>),
    PyDict(<< <<"a", PyDict(<<>>)>> >>),
    PyDict(<< <<"a", PyDict(<< <<"b", PyInt("1")>>, <<"z", PyInt("0")>> >>)>>, <<"c", PyStr("x")>> >>),
    PyDict(<< <<"a", PyDict(<< <<"b", PyInt("1")>> >>)>>, <<"c", PyStr("y")>> >>),
    PyDict(<< <<"a", PyDict(<< <<"b", PyStr("1")>> >>)>> >>) }

NoCheck == [none |-> TRUE]

\* l.386: topic.check_rule_data(rule.read, data, self.scope()): path is left
\* to its default, the one list made when the function was defined
call_check_rule_data(read, data) ==
    /\ Len(default_path) <= MaxPath
    /\ LET r == check_rule_data_items(read.d, data, default_path)
       IN /\ default_path' = r.path
          /\ checked' = [read |-> read, data |-> data,
                         status |-> r.status, named |-> r.named]
    /\ UNCHANGED <<pat, cmp>>
    /\ UNCHANGED nonMatchVars

\* The patterns: elems is what the regular expression asks of each word in
\* turn, end whether it closes with $.
Patterns == {
    [src |-> "^STATE [0-9]+ READY$",
     elems |-> <<{"STATE"}, {"1", "2"}, {"READY"}>>, end |-> TRUE],
    [src |-> "STATE [0-9]+",
     elems |-> <<{"STATE"}, {"1", "2"}>>, end |-> FALSE] }
Candidates == { <<"STATE", "1", "READY">>, <<"STATE", "2", "ARMED">>,
                <<"STATE", "1", "READY", "X">>, <<"OK">>, <<"X", "STATE", "1">> }

\* self.re.match(other): the match begins at the first word; the result is
\* group(0), the words matched, or None
re_match(p, s) ==
    LET n == Len(p.elems)
    IN IF /\ Len(s) >= n
          /\ \A j \in 1..n : s[j] \in p.elems[j]
          /\ p.end => Len(s) = n
       THEN SubSeq(s, 1, n)
       ELSE PyNone

NoCmp == [none |-> TRUE]
\* history: what the comparison before this one returned
LastRet == IF cmp = NoCmp THEN "none" ELSE IF cmp.ret THEN "True" ELSE "False"

\* l.288-289: Pattern.__str__
Pattern_str(o) ==
    IF o.match = PyNone THEN <<"r'", o.p.src, "'">> ELSE o.match

\* an __eq__ that keeps the match of an earlier comparison when this one fails
Pattern_eq_keeps(other) ==
    /\ LET m == re_match(pat.p, other)
       IN /\ pat' = IF m = PyNone THEN pat ELSE [pat EXCEPT !.match = m]
          /\ cmp' = [other |-> other, ret |-> m # PyNone, prev |-> LastRet]
    /\ UNCHANGED <<default_path, checked>>
    /\ UNCHANGED nonMatchVars

\* l.291-293: Pattern.__eq__
Pattern_eq(other) ==
    /\ LET m == re_match(pat.p, other)
       IN /\ pat' = [pat EXCEPT !.match = m]
          /\ cmp' = [other |-> other, ret |-> m # PyNone, prev |-> LastRet]
    /\ UNCHANGED <<default_path, checked>>
    /\ UNCHANGED nonMatchVars

\* l.283-286: Pattern.__init__
NewPattern(p) == [p |-> p, match |-> PyNone]

\* l.304 (the default list as the def statement makes it), and a Pattern
\* just made
InitMatchVars ==
    /\ default_path = <<>>
    /\ checked = NoCheck
    /\ pat = NewPattern(CHOOSE p \in Patterns : p.end)
    /\ cmp = NoCmp

-----------------------------------------------------------------------------
(* config.py: init_env, read_config, replace_env_variable (l.98-163)       *)
(*                                                                         *)
(* A text that may hold the separator is the sequence of the pieces        *)
(* between the separators: "a=b" is <<"a", "b">>.  A line of an env file   *)
(* is such a sequence, which is what l.split(sep) makes of it.             *)

\* os.environ
os_environ == [HOME |-> <<"/root">>, FOO |-> <<"os_foo">>]

\* str.strip() on the texts of the env files
strip(x) == CASE x = "BAZ " -> "BAZ"
              [] x = " file_baz" -> "file_baz"
              [] OTHER -> x
\* str.strip("\"'") on the texts of the env files
strip_quotes(x) == CASE x = "'q'" -> "q"
                     [] OTHER -> x

\* l.106: a line that is empty after strip, or begins with the comment sign
skipped(line) == line = <<"">> \/ line[1] \in {"# c", "#FOO"}
\* l.109: re.match("^[A-Z0-9_]+$", key)
valid_name(key) == key \in {"FOO", "BAR", "BAZ", "URL", "HOME", "FLAG"}
\* l.111: sep.join(key_value[1:]).strip().strip("\"'")
value_of(line) ==
    LET parts == Tail(line)
    IN IF parts = <<>> THEN <<"">>
       ELSE [i \in 1..Len(parts) |->
                IF i \in {1, Len(parts)} THEN strip_quotes(strip(parts[i]))
                ELSE parts[i]]

\* env[key] = value
put(env, k, v) == [n \in DOMAIN env \cup {k} |-> IF n = k THEN v ELSE env[n]]

\* l.104-112: the loop over the lines of the env file
RECURSIVE read_lines(_, _)
read_lines(lines, env) ==
    IF lines = <<>> THEN [raised |-> "", env |-> env]
    ELSE IF skipped(Head(lines)) THEN read_lines(Tail(lines), env)
    ELSE LET key == strip(Head(lines)[1])
         IN IF ~valid_name(key)
            THEN [raised |-> "Invalid variable name", env |-> env]
            ELSE read_lines(Tail(lines), put(env, key, value_of(Head(lines))))

NoFile == <<"None">>
EnvFiles == {
    << <<"FOO", "file_foo">>, <<"# c">>, <<"BAR", "'q'">> >>,
    << <<"URL", "a", "b">>, <<"">>, <<"#FOO", "no">>, <<"FLAG">> >>,
    << <<"BAZ ", " file_baz">>, <<"FOO", "first">>, <<"FOO", "last">> >>,
    << <<"BAZ", "x">>, <<"bad-name", "y">> >> }

\* an init_env that starts from the table of the read before
init_env_carries(env_file) ==
    LET env == [n \in DOMAIN ENV \cup DOMAIN os_environ |->
                  IF n \in DOMAIN os_environ THEN os_environ[n] ELSE ENV[n]]
    IN IF env_file = NoFile THEN [raised |-> "", env |-> env]
       ELSE read_lines(env_file, env)

\* l.98-116: init_env
init_env(env_file) ==
    IF env_file = NoFile THEN [raised |-> "", env |-> os_environ]
    ELSE read_lines(env_file, os_environ)

\* A scalar of a document is the sequence of its parts: a literal text
\* [k |-> "lit", s |-> text] or a parameter ${NAME} [k |-> "var", s |-> <<NAME>>].
Lit(x) == [k |-> "lit", s |-> <<x>>]
Var(n) == [k |-> "var", s |-> <<n>>]
Documents == {
    << <<Lit("tcp://"), Var("FOO")>>, <<Var("HOME")>> >>,
    << <<Var("BAR"), Lit("-"), Var("BAR")>> >>,
    << <<Var("URL")>>, <<Lit("flag:"), Var("FLAG")>> >>,
    << <<Lit("plain")>> >> }

\* l.150-163: replace_env_variable on one scalar, with the table env
replace_env_variable(value, env) ==
    IF \E i \in 1..Len(value) : value[i].k = "var" /\ value[i].s[1] \notin DOMAIN env
    THEN [raised |-> "The environment variable does not exist", value |-> value]
    ELSE [raised |-> "",
          value |-> [i \in 1..Len(value) |->
                       IF value[i].k = "var"
                       THEN [k |-> "env", s |-> env[value[i].s[1]]]
                       ELSE value[i]]]

\* l.138-143: yaml.load runs the !env constructor on every scalar
yaml_load(doc, env) ==
    IF \E i \in 1..Len(doc) : replace_env_variable(doc[i], env).raised # ""
    THEN [raised |-> "The environment variable does not exist", config |-> <<>>]
    ELSE [raised |-> "",
          config |-> [i \in 1..Len(doc) |-> replace_env_variable(doc[i], env).value]]

NoLoad == [none |-> TRUE]
\* history: the env file of the read before this one
LastFile == IF loaded = NoLoad THEN NoFile ELSE loaded.env_file

\* l.119-147: read_config.  ENV is assigned when init_env has returned.
read_config(doc, env_file) ==
    /\ LET e == init_env(env_file)
       IN IF e.raised # ""
          THEN /\ loaded' = [doc |-> doc, env_file |-> env_file, prev |-> LastFile,
                             raised |-> e.raised, config |-> <<>>]
               /\ UNCHANGED ENV
          ELSE /\ ENV' = e.env
               /\ LET y == yaml_load(doc, e.env)
                  IN loaded' = [doc |-> doc, env_file |-> env_file, prev |-> LastFile,
                                raised |-> y.raised, config |-> y.config]
    /\ UNCHANGED valued
    /\ UNCHANGED nonCfgVars

-----------------------------------------------------------------------------
(* config.py: ConfigPart.value (l.248-279)                                 *)
(*                                                                         *)
(* Values are those of check_rule_data, with bool [t |-> "bool", v |-> _]  *)
(* and None.                                                               *)

PyBool(x) == [t |-> "bool", v |-> x]
None == [t |-> "none", v |-> "None"]

\* not x
falsy(x) ==
    \/ x.t = "none"
    \/ x.t = "int" /\ x.v = "0"
    \/ x.t = "str" /\ x.v = ""
    \/ x.t = "bool" /\ x.v = "False"
    \/ x.t = "dict" /\ x.d = <<>>

\* the number a bool counts as
as_int(x) == IF x.t = "bool" THEN (IF x.v = "True" THEN "1" ELSE "0") ELSE x.v

\* val == default: numbers and bools compare by number, the rest by type
\* and content
py_eq(a, b) ==
    IF a.t \in {"int", "bool"} /\ b.t \in {"int", "bool"} THEN as_int(a) = as_int(b)
    ELSE /\ a.t = b.t
         /\ IF a.t = "dict" THEN a.d = b.d ELSE a.v = b.v

\* type(val) for type in str, int, bool; "none" is no type given
coerce(type, val) ==
    CASE type = "none" -> [raised |-> "", r |-> val]
      [] type = "bool" ->
            [raised |-> "", r |-> PyBool(IF falsy(val) THEN "False" ELSE "True")]
      [] type = "str" ->
            [raised |-> "", r |-> PyStr(IF val.t = "dict" THEN "{...}" ELSE val.v)]
      [] type = "int" ->
            IF val.t \in {"int", "bool"} THEN [raised |-> "", r |-> PyInt(as_int(val))]
            ELSE IF val.t = "str" /\ val.v \in {"0", "1", "5"}
                 THEN [raised |-> "", r |-> PyInt(val.v)]
            ELSE IF val.t = "str" THEN [raised |-> "ValueError", r |-> None]
            ELSE [raised |-> "TypeError", r |-> None]

\* l.252-258: the reduce over path.split(".")
RECURSIVE descend(_, _, _)
descend(di, path, default) ==
    IF path = <<>> THEN di
    ELSE descend(IF di.t = "dict" /\ HasKey(di, Head(path))
                 THEN GetItem(di, Head(path)) ELSE default,
                 Tail(path), default)

\* a test that forgets the default
is_required_plain(default, required) == required

\* l.249: required = default is not None and required
is_required(default, required) == default # None /\ required

\* l.248-279: ConfigPart.value
value(config, path, default, type, required) ==
    LET val == descend(config, path, default)
        c == IF py_eq(val, default) THEN [raised |-> "", r |-> default]
             ELSE coerce(type, val)
    IN IF c.raised # "" THEN c
       ELSE IF falsy(c.r) /\ is_required(default, required)
            THEN [raised |-> "The property does not exist", r |-> None]
            ELSE c

\* self._config: the document of the part
TheConfig == PyDict(<<
    <<"port", PyInt("0")>>,
    <<"name", PyStr("")>>,
    <<"debug", PyBool("False")>>,
    <<"baud", PyInt("5")>>,
    <<"serial", PyDict(<< <<"port", PyInt("0")>>, <<"dev", PyStr("tty")>> >>)>> >>)
Paths == { <<"port">>, <<"name">>, <<"debug">>, <<"baud">>, <<"serial">>,
           <<"serial", "port">>, <<"serial", "dev">>, <<"absent">>,
           <<"baud", "rate">> }
Defaults == { None, PyInt("0"), PyInt("5"), PyStr("d"), PyBool("False") }
Types == {"none", "str", "int", "bool"}

NoValue == [none |-> TRUE]

\* a call of ConfigPart.value
call_value(path, default, type, required) ==
    /\ LET v == value(TheConfig, path, default, type, required)
       IN valued' = [path |-> path, default |-> default, type |-> type,
                     required |-> required, raised |-> v.raised, r |-> v.r]
    /\ UNCHANGED <<ENV, loaded>>
    /\ UNCHANGED nonCfgVars

\* l.34: ENV = {} before the first read
InitCfgVars ==
    /\ ENV = <<>>
    /\ loaded = NoLoad
    /\ valued = NoValue

-----------------------------------------------------------------------------
(* The bridge: the Serial thread and the MQTT thread over one scope *)

NoEvent == [none |-> TRUE]

InitBridgeVars ==
    /\ scope = StaticScope
    /\ connected = FALSE
    /\ th = [t \in Threads |-> [st |-> "idle", ti |-> 0, ri |-> 0, ev |-> NoEvent,
                                exc |-> "", err |-> ""]]
    /\ fired = [t \in Threads |-> <<>>]
    /\ overlap = [t \in Threads |-> FALSE]
    /\ raced = {}

InitBridge ==
    /\ InitBridgeVars
    /\ InitSimVars
    /\ InitTimerVars({}) /\ InitSerialVars
    /\ InitMqttVars
    /\ InitMatchVars
    /\ InitCfgVars
    /\ \A c \in DOMAIN sections : sections[c] = "READY"

NextBridge ==
    \/ on_connect
    \/ on_disconnect
    \/ \E m \in Messages : on_mqtt_message(m)
    \/ mqtt_check_rule_data
    \/ \E line \in SerialLines : on_serial_data(line)
    \/ serial_match_read
    \/ \E t \in Threads : update_scope_set(t)
    \/ \E t \in Threads : eval_write(t)
    \/ \E t \in Threads : update_scope_check(t)
    \/ \E t \in Threads : update_scope_del(t)

SpecBridge == InitBridge /\ [][NextBridge]_vars

-----------------------------------------------------------------------------
(* The simulator on its own *)

InitSim ==
    /\ InitSimVars /\ InitTimerVars({}) /\ InitSerialVars
    /\ InitBridgeVars /\ InitMqttVars /\ InitMatchVars /\ InitCfgVars

NextSim ==
    \/ \E d \in WriteInputs : write(d)
    \/ add_to_buffer_sleep
    \/ add_to_buffer_put
    \/ state_sleep
    \/ state_put
    \/ readline
    \/ worker_check
    \/ worker_fire
    \/ worker_stamp
    \/ worker_wait
    \/ Tick

SpecSim == InitSim /\ [][NextSim]_vars

-----------------------------------------------------------------------------
(* The MQTT worker on its own *)

InitMqtt ==
    /\ InitMqttVars /\ InitBridgeVars /\ InitMatchVars /\ InitCfgVars
    /\ InitSimVars /\ InitTimerVars({}) /\ InitSerialVars

NextMqtt ==
    \/ mqtt_worker_start
    \/ wait_for_connection_init
    \/ wait_for_connection_disconnect_raises
    \/ connect_ok
    \/ connect_fails
    \/ reconnect_wait
    \/ connect_cancelled
    \/ set_exit
    \/ loop_exit
    \/ loop_idle
    \/ loop_on_connect
    \/ loop_on_disconnect
    \/ loop_raises
    \/ mqtt_worker_finally
    \/ mqtt_worker_finally_raises

SpecMqtt == InitMqtt /\ [][NextMqtt]_vars

-----------------------------------------------------------------------------
(* Rule matching on its own: calls of check_rule_data and of Pattern.__eq__ *)

InitMatch ==
    /\ default_path = <<>>
    /\ checked = NoCheck
    /\ pat \in { NewPattern(p) : p \in Patterns }
    /\ cmp = NoCmp
    /\ InitCfgVars
    /\ InitBridgeVars
    /\ InitMqttVars
    /\ InitSimVars
    /\ InitTimerVars({}) /\ InitSerialVars
    /\ \A c \in DOMAIN sections : sections[c] = "READY"

NextMatch ==
    \/ \E read \in Expected, data \in Actual : call_check_rule_data(read, data)
    \/ \E other \in Candidates : Pattern_eq(other)

SpecMatch == InitMatch /\ [][NextMatch]_vars

-----------------------------------------------------------------------------
(* The configuration on its own: lookups of values, and reads of documents *)

InitConfig ==
    /\ InitCfgVars
    /\ InitMatchVars
    /\ InitBridgeVars
    /\ InitMqttVars
    /\ InitSimVars
    /\ InitTimerVars({}) /\ InitSerialVars
    /\ \A c \in DOMAIN sections : sections[c] = "READY"

NextConfig ==
    \E path \in Paths, default \in Defaults, type \in Types, required \in BOOLEAN :
        call_value(path, default, type, required)

SpecConfig == InitConfig /\ [][NextConfig]_vars

NextEnv ==
    \E doc \in Documents, f \in EnvFiles \cup {NoFile} : read_config(doc, f)

SpecEnv == InitConfig /\ [][NextEnv]_vars

-----------------------------------------------------------------------------
(* The timed rules on their own: Simulator.worker, the clock, the reader   *)
(* of the queue, and the exit event.  The worker thread keeps running, the *)
(* reader keeps reading and the clock keeps going.                         *)

InitTimer ==
    /\ InitSimVars
    /\ InitTimerVars(1..Len(Rules)) /\ InitSerialVars
    /\ InitBridgeVars /\ InitMqttVars /\ InitMatchVars /\ InitCfgVars
    /\ \A c \in DOMAIN sections : sections[c] = "READY"

NextTimer ==
    \/ worker_check
    \/ worker_fire
    \/ worker_stamp
    \/ worker_wait
    \/ readline
    \/ clock_tick(MaxRuleTime)
    \/ set_exit

SpecTimer ==
    /\ InitTimer /\ [][NextTimer]_vars
    /\ WF_vars(worker_check \/ worker_fire \/ worker_stamp \/ worker_wait)
    /\ WF_vars(readline)
    /\ WF_vars(clock_tick(MaxRuleTime))

-----------------------------------------------------------------------------
(* The Serial worker on its own, and the exit event *)

InitSerial ==
    /\ InitSimVars /\ InitTimerVars({}) /\ InitSerialVars
    /\ InitBridgeVars /\ InitMqttVars /\ InitMatchVars /\ InitCfgVars
    /\ \A c \in DOMAIN sections : sections[c] = "READY"

NextSerial ==
    \/ serial_open
    \/ serial_open_raises
    \/ serial_exit
    \/ \E bytes \in Reads : serial_readline(bytes)
    \/ serial_readline_raises
    \/ serial_dispatch
    \/ on_data_returns
    \/ on_data_raises
    \/ serial_wait
    \/ serial_close
    \/ set_exit

SpecSerial == InitSerial /\ [][NextSerial]_vars

-----------------------------------------------------------------------------
(* The three workers and the exit event.                                   *)
(*                                                                         *)
(* Component.start (l.29-30, l.187-190) starts one thread per worker.  The *)
(* workers share the exit event, which none of them sets, and the queue of *)
(* the simulator, whose reads time out: no worker waits for another.  The  *)
(* runs begin with the Serial worker, the MQTT worker, the Simulator       *)
(* worker, or the Serial and the Simulator workers (use_simulator) started *)
(* and the others not.  Every started thread keeps running.                *)

Workers == {"serial", "mqtt", "simulator"}

Started == { {"serial"}, {"mqtt"}, {"simulator"}, {"serial", "simulator"} }

InitWorkers ==
    \E started \in Started :
        /\ sections = [c \in {SectionCodes[i] : i \in 1..Len(SectionCodes)} |-> "READY"]
        /\ buffer = <<>>
        /\ wpc = "idle" /\ wphase = 1 /\ wcmd = <<>> /\ wdata = <<>> /\ widx = 0
        /\ now = 0
        /\ last_write = [i \in 1..Len(Rules) |-> NoTime]
        /\ kpc = [i |-> 0, st |-> IF "simulator" \in started THEN "wait" ELSE "unstarted"]
        /\ slept = "none" /\ replies = <<>> /\ pre = sections /\ got = <<>>
        /\ call = NoCall
        /\ InitTimerVars({})
        /\ spc = IF "serial" \in started THEN "start" ELSE "unstarted"
        /\ ser = [st |-> "new", opens |-> 0, closes |-> 0, blind |-> FALSE]
        /\ xbytes = NoRead /\ sexc = FALSE /\ heard = <<>>
        /\ client = 0 /\ link = "none" /\ subs = {} /\ exit_event = FALSE
        /\ mpc = IF "mqtt" \in started THEN "start" ELSE "unstarted"
        /\ mctx = "first" /\ mreconnect = FALSE /\ mexc = FALSE /\ waited = 0
        /\ late = [simulator |-> 0, mqtt |-> 0, serial |-> 0]
        /\ torn = NoTeardown
        /\ InitBridgeVars /\ InitMatchVars /\ InitCfgVars

\* a step of the thread of Serial.worker
SerialStep ==
    \/ serial_open
    \/ serial_open_raises
    \/ serial_exit
    \/ \E bytes \in Reads : serial_readline(bytes)
    \/ serial_readline_raises
    \/ serial_dispatch
    \/ on_data_returns
    \/ on_data_raises
    \/ serial_wait
    \/ serial_close

\* a step of the thread of MQTT.worker
MqttStep ==
    \/ mqtt_worker_start
    \/ wait_for_connection_init
    \/ wait_for_connection_disconnect_raises
    \/ connect_ok
    \/ connect_fails
    \/ reconnect_wait
    \/ connect_cancelled
    \/ loop_exit
    \/ loop_idle
    \/ loop_on_connect
    \/ loop_on_disconnect
    \/ loop_raises
    \/ mqtt_worker_finally
    \/ mqtt_worker_finally_raises

\* a step of the thread of Simulator.worker
SimulatorStep ==
    \/ worker_check
    \/ worker_fire
    \/ worker_stamp
    \/ worker_wait

NextWorkers ==
    \/ SerialStep
    \/ MqttStep
    \/ SimulatorStep
    \/ readline
    \/ Tick
    \/ set_exit

SpecWorkers ==
    /\ InitWorkers /\ [][NextWorkers]_vars
    /\ WF_vars(SerialStep)
    /\ WF_vars(MqttStep)
    /\ WF_vars(SimulatorStep)
    /\ WF_vars(readline)

-----------------------------------------------------------------------------
(* The simulator's claims, checked under SpecSim *)

IsPrefix(a, b) == Len(a) <= Len(b) /\ a = SubSeq(b, 1, Len(a))
SectionSet == {SectionCodes[i] : i \in 1..Len(SectionCodes)}
\* the lines of the write in progress that are still queued, in queue order
RECURSIVE CurLines(_)
CurLines(q) == IF q = <<>> THEN <<>>
               ELSE IF Head(q).cur THEN <<Head(q).line>> \o CurLines(Tail(q))
               ELSE CurLines(Tail(q))
\* the write in progress (or the last one handled) has finished
Finished == wpc = "idle" /\ wcmd # <<>>

\* C1: a section's state is always READY or ARMED; set on ARMED and unset on
\* READY return "OK" and leave the state; set on READY returns
\* "STATE <code> ARMED" and moves to ARMED; unset on ARMED returns
\* "STATE <code> READY" and moves to READY.
C1_SectionStateMachine ==
    /\ \A c \in DOMAIN sections : sections[c] \in {"READY", "ARMED"}
    /\ call.op # "none" =>
         /\ sections[call.code] = call.after
         /\ \A c \in DOMAIN sections : c # call.code => sections[c] = pre[c]
         /\ pre[call.code] = call.before
    /\ (call.op = "SET" /\ call.before = "ARMED") =>
         (call.ret = <<"OK">> /\ call.after = "ARMED")
    /\ (call.op = "UNSET" /\ call.before = "READY") =>
         (call.ret = <<"OK">> /\ call.after = "READY")
    /\ (call.op = "SET" /\ call.before = "READY") =>
         (call.ret = <<"STATE", call.code, "ARMED">> /\ call.after = "ARMED")
    /\ (call.op = "UNSET" /\ call.before = "ARMED") =>
         (call.ret = <<"STATE", call.code, "READY">> /\ call.after = "READY")

\* a section armed by set and then disarmed by unset
C1_Witness ==
    /\ call.op = "UNSET" /\ call.before = "ARMED" /\ call.code = "1"
    /\ sections["1"] = "READY"
    /\ Finished
    /\ replies = << <<"STATE", "1", "READY">> >>

\* C2: a SET, UNSET or STATE command whose pin is not the configured PIN puts
\* exactly one reply, "ERROR: 3 NO_ACCESS", does nothing else, and leaves
\* every section as it was (also for a code that is no configured zone).
C2_WrongPin ==
    ((match_set_unset(wcmd) \/ match_state(wcmd)) /\ wcmd[1] # Pin) =>
        /\ sections = pre
        /\ call = NoCall
        /\ wpc \in {"idle", "add_sleep", "add_put"}
        /\ IsPrefix(replies, << <<"ERROR:", "3", "NO_ACCESS">> >>)
        /\ got \o CurLines(buffer) = replies
        /\ Finished => replies = << <<"ERROR:", "3", "NO_ACCESS">> >>

\* a wrong-pin SET of an unknown code, answered and read
C2_Witness ==
    /\ wcmd = <<"9999", "SET", "99">>
    /\ Finished
    /\ got = << <<"ERROR:", "3", "NO_ACCESS">> >>

\* C3: SET or UNSET with the right PIN and a code that is no configured zone
\* puts exactly one reply, "ERROR: 4 INVALID_VALUE", changes no section and
\* adds none to the zone map.
C3_UnknownCode ==
    (match_set_unset(wcmd) /\ wcmd[1] = Pin /\ wcmd[3] \notin SectionSet) =>
        /\ sections = pre
        /\ DOMAIN sections = SectionSet
        /\ call = NoCall
        /\ IsPrefix(replies, << <<"ERROR:", "4", "INVALID_VALUE">> >>)
        /\ got \o CurLines(buffer) = replies
        /\ Finished => replies = << <<"ERROR:", "4", "INVALID_VALUE">> >>

\* "1234 UNSET 99" answered and read
C3_Witness ==
    /\ wcmd = <<"1234", "UNSET", "99">>
    /\ Finished
    /\ got = << <<"ERROR:", "4", "INVALID_VALUE">> >>

\* the lines a STATE query is to produce: one per zone, in configuration order
ExpectedStateLines ==
    [i \in 1..Len(SectionCodes) |->
        <<"STATE", SectionCodes[i], sections[SectionCodes[i]]>>]

\* C4: "<pin> STATE" with the right PIN puts exactly one line
\* "STATE <code> <state>" per configured zone, in configuration order, each
\* with that zone's current state and each after the response delay; the
\* reader obtains them in that order.
C4_StateQuery ==
    (match_state(wcmd) /\ wcmd[1] = Pin) =>
        /\ sections = pre
        /\ IsPrefix(replies, ExpectedStateLines)
        /\ Finished => replies = ExpectedStateLines
        /\ got \o CurLines(buffer) = replies
        /\ \A i \in 1..Len(buffer) :
              buffer[i].cur => (buffer[i].src = "state" /\ buffer[i].delay # "none")

\* both lines of a STATE query read, the zones in different states
C4_Witness ==
    /\ wcmd = <<"1234", "STATE">>
    /\ Finished
    /\ got = << <<"STATE", "1", "READY">>, <<"STATE", "2", "ARMED">> >>

\* C5 as stated: no item is put into the buffer without a response delay
\* before it.
C5_EveryPutDelayed ==
    \A i \in 1..Len(buffer) : buffer[i].delay # "none"

\* C5 as amended: every command reply put by _add_to_buffer has a response
\* delay of its own before it, the STATE lines of one query follow one shared
\* response delay, and the lines of timed rules are put with no response delay.
C5_RepliesDelayed ==
    \A i \in 1..Len(buffer) :
        /\ buffer[i].src = "reply" => buffer[i].delay = "own"
        /\ buffer[i].src = "state" => buffer[i].delay \in {"own", "shared"}
        /\ buffer[i].src = "rule" => buffer[i].delay = "none"

\* a timed rule's line queued before a command's reply
C5_Witness ==
    /\ Len(buffer) = 2
    /\ buffer[1].src = "rule"
    /\ buffer[2].src = "reply"

-----------------------------------------------------------------------------
(* The bridge's claims, checked under SpecBridge *)

\* t has handled an event and is not handling one now
HandlerDone(t) == ~InFlight(t) /\ th[t].ev # NoEvent

\* the event's rule reads: does rule ri of topic ti match it
ReadMatches(t, ev, ti, ri) ==
    IF t = "serial" THEN ev.line \in Topics(t)[ti].rules[ri].read.matches
    ELSE \A k \in DOMAIN Topics(t)[ti].rules[ri].read :
            /\ k \in DOMAIN ev.data
            /\ ev.data[k] = Topics(t)[ti].rules[ri].read[k]

\* every rule that matches the event in an enabled topic of its direction
MatchingRules(t, ev) ==
    UNION { { <<ti, ri>> : ri \in { j \in 1..Len(Topics(t)[ti].rules) :
                                      ReadMatches(t, ev, ti, j) } } :
            ti \in { i \in 1..Len(Topics(t)) :
                        /\ ~Topics(t)[i].disabled
                        /\ t = "mqtt" => Topics(t)[i].name = ev.topic } }

\* a sequence of rule positions in list order, none twice
InListOrder(f) ==
    \A i, j \in 1..Len(f) :
        i < j => \/ f[i][1] < f[j][1]
                 \/ (f[i][1] = f[j][1] /\ f[i][2] < f[j][2])

\* C6: an error in handling one event never ends a worker thread: the Serial
\* and the MQTT worker keep running and handle the events that follow.
C6_WorkersKeepRunning ==
    \A t \in Threads : th[t].st # "dead"

\* C7: a write is evaluated with data absent, or with the other direction's
\* payload as data, only in a handler that ran while the other direction's
\* handler was running (and the witness shows that both do happen).
C7_RaceNeedsOverlap ==
    \A t \in Threads :
        (th[t].st = "eval" /\
            ("data" \notin DOMAIN scope \/ scope["data"].from # t))
        => overlap[t]

\* writes were evaluated with data absent and with the other direction's data
C7_Witness ==
    /\ raced = {"absent", "foreign"}
    /\ th["serial"].st = "eval"
    /\ "data" \in DOMAIN scope
    /\ scope["data"].from = "mqtt"

\* C8: once a handler has returned or raised and no handler is running, the
\* scope holds no data binding and still holds topology, pattern and format.
C8_ScopeCleanWhenQuiet ==
    (\A t \in Threads : ~InFlight(t)) =>
        /\ "data" \notin DOMAIN scope
        /\ \A k \in {"topology", "pattern", "format"} :
              k \in DOMAIN scope /\ scope[k] = StaticScope[k]

\* both directions have ended a handler with an error, one has fired a rule
C8_Witness ==
    /\ \A t \in Threads : HandlerDone(t)
    /\ th["serial"].err = "expression"
    /\ th["mqtt"].err = "io"
    /\ fired["serial"] # <<>>

\* C9 as stated: data is bound while a rule's read is matched and while its
\* write is evaluated (in a handler the other direction does not disturb).
C9_BoundWhileReadMatched ==
    \A t \in Threads :
        (~overlap[t] /\ th[t].st \in {"read", "eval"}) => "data" \in DOMAIN scope

\* C9 as amended: in a handler the other direction does not disturb, data is
\* not bound while a rule's read is matched; it is bound after the read has
\* matched, holds the handler's own payload while the write is evaluated, and
\* is unbound again before the next rule's read is matched.
C9_BoundAfterReadMatched ==
    \A t \in Threads :
        ~overlap[t] =>
            /\ th[t].st \in {"read", "bind"} => "data" \notin DOMAIN scope
            /\ th[t].st \in {"eval", "rm_check", "rm_del"} =>
                  /\ "data" \in DOMAIN scope
                  /\ scope["data"] = [from |-> t, ev |-> th[t].ev]

\* the second rule of a topic at its read, the first one having fired
C9_Witness ==
    /\ ~overlap["serial"]
    /\ th["serial"].st = "read"
    /\ th["serial"].ri = 2
    /\ fired["serial"] = << <<1, 1>> >>
    /\ "data" \notin DOMAIN scope

\* C10: for one event, every rule whose read matches in an enabled topic of
\* the direction (for MQTT, with the message's topic name) fires exactly once,
\* in list order, whatever the other rules do: match, fail validation or not
\* match.  Stated of handlers that no expression, write or publish error and
\* no race ended.
C10_EveryMatchingRuleFires ==
    \A t \in Threads :
        (HandlerDone(t) /\ th[t].err \in {"", "Missing property", "Invalid value"})
        => /\ InListOrder(fired[t])
           /\ {fired[t][i] : i \in 1..Len(fired[t])} = MatchingRules(t, th[t].ev)

\* C11: a serial line that arrives while MQTT.connected is false publishes
\* nothing, evaluates no rule, leaves the scope as it is and is kept nowhere:
\* nothing is published for it after a later reconnect.
C11_DroppedWhenDisconnected ==
    /\ [](th["serial"].err = "not connected" =>
            (th["serial"].st = "idle" /\ fired["serial"] = <<>>))
    /\ [][(~connected /\ th["serial"].st = "idle" /\ th'["serial"] # th["serial"])
             => /\ th'["serial"].st = "idle"
                /\ th'["serial"].err = "not connected"
                /\ fired'["serial"] = <<>>
                /\ scope' = scope]_vars

\* a line dropped, the connection back, and nothing published for the line
C11_Witness ==
    /\ th["serial"].err = "not connected"
    /\ th["serial"].ev = [line |-> "A"]
    /\ connected
    /\ HandlerDone("mqtt")
    /\ fired["serial"] = <<>>

\* C12: for a message on an enabled mqtt2serial topic, each rule whose read the
\* payload satisfies has written exactly one line to the serial interface when
\* the handler is done, and each rule whose read it does not satisfy has
\* written none.  Stated of handlers that no expression or write error and no
\* race ended.
C12_OneLinePerSatisfiedRule ==
    (HandlerDone("mqtt") /\ th["mqtt"].err \in {"", "Missing property", "Invalid value"})
    => \A ti \in 1..Len(Mqtt2Serial) :
         (~Mqtt2Serial[ti].disabled /\ Mqtt2Serial[ti].name = th["mqtt"].ev.topic)
         => \A ri \in 1..Len(Mqtt2Serial[ti].rules) :
              Cardinality({i \in 1..Len(fired["mqtt"]) : fired["mqtt"][i] = <<ti, ri>>})
                = IF ReadMatches("mqtt", th["mqtt"].ev, ti, ri) THEN 1 ELSE 0

\* C13: no handler is ever inside a disabled topic, no rule of a disabled topic
\* fires, and a message whose topic name only a disabled topic bears starts
\* no rule validation and binds nothing.
C13_DisabledSkipped ==
    \A t \in Threads :
        /\ th[t].ti # 0 => ~Topics(t)[th[t].ti].disabled
        /\ \A i \in 1..Len(fired[t]) : ~Topics(t)[fired[t][i][1]].disabled
        /\ (t = "mqtt" /\ th[t].ev # NoEvent /\
              \A i \in 1..Len(Topics(t)) :
                 Topics(t)[i].name = th[t].ev.topic => Topics(t)[i].disabled)
           => (th[t].st = "idle" /\ th[t].ti = 0 /\ fired[t] = <<>>)

\* line A has passed the disabled topic whose rule reads A, and a message on
\* the disabled topic has been handled
C13_Witness ==
    /\ HandlerDone("serial")
    /\ th["serial"].ev = [line |-> "A"]
    /\ fired["serial"] = << <<1, 1>>, <<1, 2>> >>
    /\ HandlerDone("mqtt")
    /\ th["mqtt"].ev.topic = "alarm/off"

\* C16: an exception of on_mqtt_message never ends the MQTT thread: it is
\* caught in on_message, the message is dropped, and the thread is back where
\* it takes the next message.
C16_MessageErrorsCaught ==
    /\ th["mqtt"].st # "dead"
    /\ th["mqtt"].err # "" => (th["mqtt"].st = "idle" /\ th["mqtt"].exc = "")
    /\ (th["mqtt"].st = "idle" /\ connected) =>
          \A m \in Messages : ENABLED on_mqtt_message(m)

\* a validation error caught, the thread ready for the next message
C16_Witness ==
    /\ th["mqtt"].err = "Invalid value"
    /\ th["mqtt"].st = "idle"
    /\ connected
    /\ fired["mqtt"] = << <<1, 1>> >>

\* C14: no exception ever leaves the MQTT worker, whatever raises: connect,
\* client.loop, the disconnect at the start of wait_for_connection, or the
\* reconnect called from the handler of the loop.
C14_WorkerNeverRaises == mpc # "crashed"

RECURSIVE OffendingPath(_, _, _)
OffendingPath(items, data, prefix) ==
    IF items = <<>> THEN <<>>
    ELSE LET k == items[1][1]
             v == items[1][2]
             here == Append(prefix, k)
         IN IF ~HasKey(data, k) THEN here
            ELSE LET a == GetItem(data, k) IN
                 IF v.t # "expr" /\ v.t # a.t THEN here
                 ELSE IF v.t = "dict"
                 THEN LET r == OffendingPath(v.d, a, here)
                      IN IF r # <<>> THEN r ELSE OffendingPath(Tail(items), data, prefix)
                 ELSE IF (IF v.t = "expr" THEN v.val ELSE v) # a THEN here
                 ELSE OffendingPath(Tail(items), data, prefix)

\* C17: check_rule_data returns normally exactly when every key of expected
\* is in actual with equal type and value, and otherwise raises an error that
\* names the dotted path from the root of expected to the offending key, the
\* same in every call.
C17_ErrorNamesPath ==
    checked # NoCheck =>
        LET tp == OffendingPath(checked.read.d, checked.data, <<>>)
        IN /\ checked.status = "ok" <=> tp = <<>>
           /\ checked.status # "ok" => checked.named = tp

\* the candidate begins with words that satisfy the pattern, to its end if
\* the pattern closes with $
LeftMatch(p, s) ==
    /\ Len(s) >= Len(p.elems)
    /\ \A j \in 1..Len(p.elems) : s[j] \in p.elems[j]
    /\ p.end => Len(s) = Len(p.elems)

\* C18 (as stated): a comparison returns true exactly when the candidate
\* matches from its start, and the rendering is the matched text after a
\* comparison that matched and the pattern source otherwise.
C18_RendersPatternSource ==
    /\ cmp # NoCmp => cmp.ret = LeftMatch(pat.p, cmp.other)
    /\ Pattern_str(pat) =
         IF cmp # NoCmp /\ cmp.ret THEN SubSeq(cmp.other, 1, Len(pat.p.elems))
         ELSE <<pat.p.src>>

\* C18 (amended): a comparison returns true exactly when the candidate
\* matches from its start; the rendering follows the last comparison only:
\* the matched text if it matched, and otherwise r'<pattern source>', the
\* source between r' and '.
C18_RendersLastComparison ==
    /\ cmp # NoCmp => cmp.ret = LeftMatch(pat.p, cmp.other)
    /\ Pattern_str(pat) =
         IF cmp # NoCmp /\ cmp.ret THEN SubSeq(cmp.other, 1, Len(pat.p.elems))
         ELSE <<"r'", pat.p.src, "'">>

\* a comparison that failed after one that matched, on a candidate that
\* holds the pattern further in; the rendering is back at the source
C18_Witness ==
    /\ cmp # NoCmp
    /\ cmp.prev = "True"
    /\ ~cmp.ret
    /\ cmp.other = <<"X", "STATE", "1">>
    /\ Pattern_str(pat) = <<"r'", pat.p.src, "'">>

\* what the path leads to in the document, None when a level is missing
Found(path) == descend(TheConfig, path, None)

\* C19 (as stated): a property present with a falsy value and declared
\* required with no default raises the missing-property error.
C19_FalsyRequiredRaises ==
    (/\ valued # NoValue
     /\ valued.required /\ valued.default = None
     /\ Found(valued.path) # None /\ falsy(Found(valued.path))
     /\ valued.type = "none")
    => valued.raised = "The property does not exist"

\* C19 (amended): for a property present with a falsy value and looked up
\* without a type, the missing-property error is raised exactly when the
\* property is declared required and a default other than None is given;
\* with no default the falsy value itself is returned.
C19_RequiredNeedsDefault ==
    (/\ valued # NoValue
     /\ Found(valued.path) # None /\ falsy(Found(valued.path))
     /\ valued.type = "none")
    => /\ valued.raised = "The property does not exist"
            <=> (valued.required /\ valued.default # None)
       /\ valued.default = None =>
            (valued.raised = "" /\ valued.r = Found(valued.path))

\* port: 0 looked up as required with no default, and 0 returned
C19_Witness ==
    /\ valued # NoValue
    /\ valued.path = <<"port">>
    /\ valued.required /\ valued.default = None /\ valued.type = "none"
    /\ valued.raised = ""
    /\ valued.r = [t |-> "int", v |-> "0"]

\* the lines of an env file that set a name, and the value the last of them
\* gives it
SetsName(line, n) == ~skipped(line) /\ strip(line[1]) = n
FileNames(f) ==
    IF f = NoFile THEN {}
    ELSE { strip(f[i][1]) : i \in {j \in 1..Len(f) : ~skipped(f[j])} }
FileValue(f, n) ==
    LET last == CHOOSE i \in 1..Len(f) :
                    /\ SetsName(f[i], n)
                    /\ \A j \in (i + 1)..Len(f) : ~SetsName(f[j], n)
    IN value_of(f[last])

\* C20: after every read that got past init_env, ENV is os.environ overlaid
\* with the env file of that read, the file winning, and holds nothing of an
\* earlier read; a read without env file substitutes every ${NAME} from
\* os.environ alone.
C20_EnvRebuiltOnRead ==
    (loaded # NoLoad /\ loaded.raised \in {"", "The environment variable does not exist"})
    => /\ DOMAIN ENV = {"HOME", "FOO"} \cup FileNames(loaded.env_file)
       /\ \A n \in DOMAIN ENV :
            ENV[n] = IF n \in FileNames(loaded.env_file)
                     THEN FileValue(loaded.env_file, n)
                     ELSE os_environ[n]
       /\ (loaded.env_file = NoFile /\ loaded.raised = "") =>
            \A i \in 1..Len(loaded.doc) : \A j \in 1..Len(loaded.doc[i]) :
                loaded.doc[i][j].k = "var" =>
                    loaded.config[i][j].s = os_environ[loaded.doc[i][j].s[1]]

\* a read without env file after a read whose env file set FOO: ${FOO} has
\* the value of os.environ
C20_Witness ==
    /\ loaded # NoLoad
    /\ loaded.env_file = NoFile
    /\ loaded.prev # NoFile
    /\ "FOO" \in FileNames(loaded.prev)
    /\ loaded.raised = ""
    /\ Len(loaded.doc[1]) >= 2
    /\ loaded.doc[1][2] = [k |-> "var", s |-> <<"FOO">>]
    /\ loaded.config[1][2].s = <<"os_foo">>

-----------------------------------------------------------------------------
(* The claims on unrecognized input, cancellation, the Serial worker,      *)
(* reconnects and timed rules                                              *)

\* the line has one of the forms "<pin> SET <code>", "<pin> UNSET <code>",
\* "<pin> STATE", with <pin> and <code> words of digits
CommandForm(s) ==
    \/ /\ Len(s) = 3
       /\ s[1] \in {"1234", "9999", "1", "2", "99"}
       /\ s[2] \in {"SET", "UNSET"}
       /\ s[3] \in {"1234", "9999", "1", "2", "99"}
    \/ /\ Len(s) = 2
       /\ s[1] \in {"1234", "9999", "1", "2", "99"}
       /\ s[2] = "STATE"

\* C21: a write whose input has none of the command forms ends at once: it
\* takes no response delay, puts no reply, calls no section and changes no
\* section state.
C21_UnrecognizedIgnored ==
    (wcmd # <<>> /\ ~CommandForm(wcmd)) =>
        /\ wpc = "idle"
        /\ slept = "none"
        /\ replies = <<>>
        /\ CurLines(buffer) = <<>>
        /\ got = <<>>
        /\ call = NoCall
        /\ sections = pre

\* "12x4 STATE" written while an earlier reply is still queued
C21_Witness ==
    /\ wcmd = <<"12x4", "STATE">>
    /\ wpc = "idle"
    /\ Len(buffer) = 1
    /\ buffer[1].src = "reply"
    /\ replies = <<>>

\* the rule is timed, has been evaluated, and more than its interval has
\* passed since its last-fire time
Due(i) ==
    /\ Rules[i].time > 0
    /\ last_write[i] # -1
    /\ now - last_write[i] > Rules[i].time

\* C25 (as stated): the evaluation that records a rule's first last-fire time
\* enqueues nothing.
C25_FirstEvaluationOnlyRecords ==
    kpc.st = "stamp" => ~fresh

\* C25 (amended): a rule without an interval is never evaluated or fired.  A
\* timed rule has a last-fire time by the time it is compared; every
\* comparison enqueues the rule's line exactly when the clock exceeds the
\* last-fire time by more than the interval, the first one too; after an
\* enqueue the last-fire time is set to the clock, so two fires of a rule are
\* more than one interval apart; and a rule that is due fires, as long as the
\* exit event is not set.
C25_TimedRules ==
    /\ [](\A i \in 1..Len(Rules) :
            /\ Rules[i].time = -1 => (fire_log[i] = <<>> /\ last_write[i] = -1)
            /\ \A j \in 1..(Len(fire_log[i]) - 1) :
                 fire_log[i][j + 1] - fire_log[i][j] > Rules[i].time)
    /\ [](kpc.st \in {"cmp", "stamp"} =>
            (Rules[kpc.i].time > 0 /\ last_write[kpc.i] # -1))
    /\ [][(kpc.st = "cmp" /\ kpc' # kpc) =>
            /\ kpc'.st = "stamp" <=> now - last_write[kpc.i] > Rules[kpc.i].time
            /\ kpc'.st = "stamp" =>
                 buffer' = Append(buffer, [line |-> Rules[kpc.i].write, src |-> "rule",
                                           delay |-> "none", cur |-> FALSE])
            /\ kpc'.st # "stamp" => buffer' = buffer]_vars
    /\ [][(kpc.st = "stamp" /\ kpc' # kpc) => last_write'[kpc.i] = now]_vars
    /\ \A i \in 1..Len(Rules) :
          Due(i) ~> (kpc = [i |-> i, st |-> "stamp"] \/ exit_event)

\* the timed rule has fired twice, the second time not on a first evaluation
C25_Witness ==
    /\ Len(fire_log[1]) = 2
    /\ kpc = [i |-> 1, st |-> "stamp"]
    /\ ~fresh
    /\ fire_log[2] = <<>>

\* text is raw without its leading and trailing CR and NL
Stripped(raw, text) ==
    /\ text = <<>> \/ (text[1] \notin {"CR", "NL"} /\ text[Len(text)] \notin {"CR", "NL"})
    /\ \E i \in 0..Len(raw) : \E j \in i..Len(raw) :
          /\ SubSeq(raw, i + 1, j) = text
          /\ \A k \in 1..Len(raw) : (k <= i \/ k > j) => raw[k] \in {"CR", "NL"}

\* C23: the Serial worker has opened the transport, once, before anything is
\* read, and no read is made on a transport that is not open; every call of
\* the line-arrival callback is for a read that was not empty, with the
\* decoded text stripped of its newline; and the transport is closed exactly
\* when the worker that opened it has ended, once, whether the loop ended by
\* the exit event or by an error of the read, of the decoding or of the
\* callback.
C23_OpenReadClose ==
    /\ ~ser.blind
    /\ ser.opens <= 1 /\ ser.closes <= 1
    /\ xbytes # NoRead => ser.opens = 1
    /\ spc \in {"test", "read", "on_data", "wait", "finally"} => ser.st = "open"
    /\ \A k \in 1..Len(heard) :
          /\ heard[k].raw # <<>>
          /\ ~undecodable(heard[k].raw)
          /\ Stripped(heard[k].raw, heard[k].text)
    /\ spc = "on_data" => (heard # <<>> /\ heard[Len(heard)].raw = xbytes)
    /\ ser.closes = 1 <=> (spc = "done" /\ ser.opens = 1)
    /\ (spc = "done" /\ ser.opens = 1) => ser.st = "closed"

\* the worker has handed two lines to the callback, the first ending in CR NL,
\* and has ended by an error, not by the exit event, with the transport closed
C23_Witness ==
    /\ spc = "done" /\ sexc /\ ~exit_event
    /\ ser.st = "closed" /\ ser.closes = 1
    /\ Len(heard) = 2
    /\ heard[1] = [raw |-> <<"OK", "CR", "NL">>, text |-> <<"OK">>]
    /\ heard[2].raw = xbytes

\* C24: an exception of client.loop makes the worker call
\* wait_for_connection with reconnect set, a dropped flag makes it call
\* wait_for_connection too, the loop goes on pumping only with the flag set,
\* and the call made after an exception, whatever the flag, disconnects the
\* client, clears the flag, replaces the client and goes on to connect.
C24_LoopErrorForcesReconnect ==
    /\ [](mpc = "wfc" => must_connect)
    /\ [][(mpc = "loop" /\ mpc' = "loop" /\ exit_event' = exit_event) => connected']_vars
    /\ [][(mpc = "loop" /\ mpc' = "wfc") =>
            \/ mctx' = "handler" /\ mreconnect'
            \/ mctx' = "loop" /\ ~connected']_vars
    /\ [][(mpc = "wfc" /\ mctx = "handler" /\ <<mpc, mctx>>' # <<mpc, mctx>>) =>
            /\ client' = client + 1
            /\ ~connected'
            /\ link' = "none"
            /\ mpc' = "connect"
            /\ torn' = [call |-> "handler", flag |-> connected, link |-> link]]_vars

\* C26: once connect has succeeded, wait_for_connection disconnects and
\* replaces the client only after on_disconnect has run or client.loop has
\* raised: a call made because client.loop returned with the flag down never
\* finds a connection whose CONNACK is still to come.
C26_NoTeardownBeforeConnack ==
    torn.call = "loop" => torn.link # "pending"

\* every started worker has left its worker function
AllTerminated ==
    /\ spc \in {"unstarted", "done"}
    /\ mpc \in {"unstarted", "done", "crashed"}
    /\ kpc.st \in {"unstarted", "done"}

\* the model has no further client to give to wait_for_connection
OutOfClients == mpc = "wfc" /\ client >= MaxClients

\* C22: with the exit event set no worker begins another round of its loop:
\* the Serial loop does not read again, the MQTT loop does not pump again,
\* the connection-retry loop does not connect again, the Simulator loop does
\* not evaluate its rules again; each worker ends at most one
\* exit_event.wait after the event was set, and every started worker does
\* end.  The Serial worker that has ended has closed the transport it opened,
\* and the MQTT worker that has returned with the connected flag set has
\* disconnected its client.
C22_CancellationEndsWorkers ==
    /\ [](\A w \in Workers : late[w] <= 1)
    /\ [][exit_event =>
            /\ spc = "test" => spc' \in {"test", "finally"}
            /\ mpc = "loop" => mpc' \in {"loop", "finally"}
            /\ mpc = "connect" => (mpc' \in {"connect", "loop"} /\ link' = link)
            /\ kpc.st = "wait" => kpc'.st \in {"wait", "done"}]_vars
    /\ []((spc = "done" /\ ser.opens = 1) => (ser.st = "closed" /\ ser.closes = 1))
    /\ []((mpc = "done" /\ connected) => link = "none")
    /\ (exit_event /\ ~OutOfClients) ~> AllTerminated

\* the MQTT worker has returned after the exit event, with the flag still set
\* and its subscribed client disconnected
C22_Witness ==
    /\ mpc = "done" /\ exit_event
    /\ connected /\ subs # {} /\ link = "none"
    /\ AllTerminated

====
